---- MODULE Spec2Model ----
(***************************************************************************)
(* Model of the GenomicArchive load pipeline: upload_file.py (job polling  *)
(* loop), Map_Flow.py (SNP map reconciliation), Genotype_Map_Flow.py and   *)
(* Parentage_Genotyping.py (genotype decoding).                            *)
(*                                                                         *)
(* A SNP name is a sequence of one-character strings, so that str.upper()  *)
(* and the comparison with '' are computed and not assumed.  A map name is *)
(* a string built as the f-strings of Map_Flow.py build it.                *)
(***************************************************************************)
EXTENDS Integers, Sequences, FiniteSets, TLC

VARIABLES
    Mappe,      \* GEN.[Folder_Mappa]: set of rows {Map_Name, Number_snp, Map_Alias}
    tables,     \* GEN.[<Map_Name>]: function Map_Name -> sequence of SNP_Name
    mrun,       \* the last run of the Map pipeline: input, flag printed, status written
    Tmp_Finalreports,   \* GEN.[Tmp_Finalreports]: the staging rows of the job
    drun,       \* the run of the two genotype scripts on one final report
    Code_Caricamenti,       \* GEN.[Code_Caricamenti]: Nume_Cari -> job record
    decode_text_log_XDB,    \* config["decode_text_log_XDB"]: tag -> triple
    pc,         \* "idle" between polls, "batch" in the loop over ids,
                \* "crashed" after an uncaught exception, "done" after the budget
    ids,        \* the jobs of the batch not yet started, in order
    M_code,     \* the tag whose triple M_code refers to; "none" is {}
    batch,      \* the jobs selected by the last poll
    infra,      \* the jobs of the batch that met an infrastructure error
    gNume_Cari, \* the module global Nume_Cari that criticalError reads: the
                \* job started last, 0 while the name is not yet bound
    writes,     \* the statements that aggiorna_bit executed in the last
                \* iteration, in order
    max_seconds_to_run, \* config["max_seconds_to_run"]: D, in seconds
    now,        \* time.time(), in ticks
    start_time, \* max_seconds: start_time, in ticks
    end_time,   \* max_seconds: end_time, in ticks
    lp,         \* the main loop: "start" before it, "poll" in its body,
                \* "next" when the body is over, "end" after the loop
    polls,      \* the number of values max_seconds has yielded
    sec,        \* the value yielded last
    scan,       \* a run of the loop over config["lista_simbolo"] on a final
                \* report without chip names: its input and its result
    rep,        \* a run of the sample summary: its input and its result
    crit        \* a call of criticalError: the files and the store it finds,
                \* the frames of the calls not yet returned, what was done

mapVars == <<Mappe, tables, mrun>>
decodeVars == <<Tmp_Finalreports, drun>>
jobVars == <<Code_Caricamenti, decode_text_log_XDB, pc, ids, M_code, batch, infra,
             gNume_Cari, writes>>
clockVars == <<max_seconds_to_run, now, start_time, end_time, lp, polls, sec>>
vars == <<Mappe, tables, mrun, Tmp_Finalreports, drun, Code_Caricamenti,
          decode_text_log_XDB, pc, ids, M_code, batch, infra, gNume_Cari, writes,
          max_seconds_to_run, now, start_time, end_time, lp, polls, sec, scan, rep, crit>>

(***************************************************************************)
(* Bounds of the model.                                                    *)
(***************************************************************************)
MaxLen  == 2    \* longest SNP name list of a short map file
MaxMaps == 3    \* most rows of the map registry
LongLen == 10   \* length of the one long map file (two decimal digits)
MaxRows == 3    \* most data rows of a final report
MaxJobs == 2    \* most jobs submitted in a run
MaxBudget == 2  \* largest max_seconds_to_run, in seconds
MaxBody == 5    \* longest body of the main loop, in ticks
MaxSeps == 2    \* longest list of candidate separators
MaxSamples == 11 \* most samples of a final report in a sample summary
RecursionLimit == 8 \* most nested calls of criticalError (sys.getrecursionlimit())

(***************************************************************************)
(* Strings.                                                                *)
(***************************************************************************)
\* str.upper() on one character (the alphabet of the model)
UpperChar(c) ==
    CASE c = "a" -> "A"
      [] c = "b" -> "B"
      [] c = "s" -> "S"
      [] c = "x" -> "X"
      [] c = "y" -> "Y"
      [] OTHER   -> c

\* str.upper()
Upper(name) == [i \in DOMAIN name |-> UpperChar(name[i])]

\* str(n) for n >= 0, as the sequence of its decimal digits
RECURSIVE Digits(_)
Digits(n) == IF n < 10 THEN <<n>> ELSE Append(Digits(n \div 10), n % 10)

\* Python's `s in t` on strings
IsSubstr(s, t) ==
    \E i \in 0..(Len(t) - Len(s)) : SubSeq(t, i + 1, i + Len(s)) = s

\* chr(ord('a') + k)
SuffixLetters == <<"a", "b", "c", "d", "e", "f", "g", "h">>
SuffixChr(k) == SuffixLetters[k + 1]

\* f'{Number_snp}_{suffix}'
FmtMapName(n, k) == ToString(n) \o "_" \o SuffixChr(k)

(***************************************************************************)
(* Map_Flow.py: SNP map reconciliation.                                    *)
(***************************************************************************)
\* a drop_duplicates that drops nothing
DropDuplicatesKeepsAll(s) == s

\* pandas DataFrame.drop_duplicates(['SNP_Name']): keeps first occurrences
RECURSIVE DropDuplicates(_)
DropDuplicates(s) ==
    IF s = <<>> THEN <<>>
    ELSE LET front == DropDuplicates(SubSeq(s, 1, Len(s) - 1))
             last  == s[Len(s)]
         IN  IF \E i \in 1..(Len(s) - 1) : s[i] = last
             THEN front ELSE Append(front, last)

\* snp_newmap.drop(rows where SNP_Name == '')
DropEmptyNames(s) == SelectSeq(s, LAMBDA x : x # <<>>)

\* len(pd.merge(a, b, on='SNP_Name', how='inner')): one row per equal pair
InnerMergeLen(a, b) ==
    Cardinality({p \in (DOMAIN a) \X (DOMAIN b) : a[p[1]] = b[p[2]]})

\* the test of the suffix walk: the merge is as long as both tables
SameSnpSet(snpmap, snp_newmap) ==
    LET controlle == InnerMergeLen(snpmap, snp_newmap)
    IN  controlle = Len(snp_newmap) /\ controlle = Len(snpmap)

\* nsnp = Table_Mappa_nsnp.set_index('Number_snp').T.to_dict('list'): a dict
\* with one key per distinct Number_snp, in the order of first occurrence in
\* the rows of a SELECT without ORDER BY, which is any order
KeyOrders(mappe) ==
    LET keys == {r.Number_snp : r \in mappe}
    IN  {o \in [1..Cardinality(keys) -> keys] :
            \A i, j \in DOMAIN o : i # j => o[i] # o[j]}

\* `str(len(snp_newmap)) in str(key)`
SizeKeyMatches(n, key) == IsSubstr(Digits(n), Digits(key))

\* the loop `for key in nsnp` with its break: the position of the first key
\* that matches, 0 when tof stays False
FirstMatchingKey(order, n) ==
    LET hits == {i \in DOMAIN order : SizeKeyMatches(n, order[i])}
    IN  IF hits = {} THEN 0 ELSE CHOOSE i \in hits : \A j \in hits : i <= j

MapNames(mappe) == {r.Map_Name : r \in mappe}

\* the while loop of the suffix walk; k is ord(suffix) - ord('a').
\* Result: found (an equal map is stored under mappa), or the first
\* candidate name that is not in the registry; broken when a registry row
\* has no table (the read raises).
RECURSIVE SuffixWalk(_, _, _, _, _, _)
SuffixWalk(mappa, k, Number_snp, snp_newmap, mappe, tabs) ==
    IF mappa \notin MapNames(mappe)
    THEN [found |-> FALSE, broken |-> FALSE, mappa |-> mappa]
    ELSE IF mappa \notin DOMAIN tabs
    THEN [found |-> FALSE, broken |-> TRUE, mappa |-> mappa]
    ELSE IF SameSnpSet(tabs[mappa], snp_newmap)
    THEN [found |-> TRUE, broken |-> FALSE, mappa |-> mappa]
    ELSE SuffixWalk(FmtMapName(Number_snp, k + 1), k + 1, Number_snp,
                    snp_newmap, mappe, tabs)

\* the historical map name that is kept unchanged
NomeIcar == "554_ICAR"

\* the first candidate name of the walk
FirstCandidate(Nome_Map, Number_snp) ==
    IF Nome_Map = NomeIcar THEN Nome_Map ELSE FmtMapName(Number_snp, 0)

\* the three statements that store a map: INSERT of the registry row,
\* CREATE TABLE, executemany of the SNP names, each committed on its own.
\* An exception ends the script with nothing on stdout (flag "").
\* emptyRaises: whether executemany raises on an empty parameter list.
StoreMap(Map_Name, snp_newmap, Tipo_Chip, flag, mappe, tabs, emptyRaises) ==
    LET row == [Map_Name |-> Map_Name, Number_snp |-> Len(snp_newmap),
                Map_Alias |-> Tipo_Chip]
    IN  IF Map_Name \in DOMAIN tabs
        THEN [out |-> "", Mappe |-> mappe \cup {row}, tables |-> tabs]
        ELSE IF snp_newmap = <<>> /\ emptyRaises
        THEN [out |-> "", Mappe |-> mappe \cup {row},
              tables |-> tabs @@ (Map_Name :> <<>>)]
        ELSE [out |-> flag, Mappe |-> mappe \cup {row},
              tables |-> tabs @@ (Map_Name :> snp_newmap)]

\* Map_Flow.py from the list of names read from the file (camp) on: the flag
\* printed, the registry and tables it leaves, and the branch taken
\* (decision, with the reason logged for a rejection and the map name the
\* decision is about).
MapFlow(camp, Nome_Map, Tipo_Chip, order, mappe, tabs, emptyRaises) ==
    LET keep == [out |-> "A", Mappe |-> mappe, tables |-> tabs] IN
    IF Len(camp) # Len(DropDuplicates(camp))
    THEN [decision |-> "Rejected", reason |-> "DuplicateNames", mappa |-> ""] @@ keep
    ELSE IF Len(DropEmptyNames(camp)) # Len(camp)
    THEN [decision |-> "Rejected", reason |-> "EmptyNames", mappa |-> ""] @@ keep
    ELSE
      LET first == FirstMatchingKey(order, Len(camp)) IN
      IF first # 0
      THEN LET Number_snp == order[first]
               w == SuffixWalk(FirstCandidate(Nome_Map, Number_snp), 0,
                               Number_snp, camp, mappe, tabs)
           IN  IF w.broken
               THEN [decision |-> "Error", reason |-> "", mappa |-> w.mappa,
                     out |-> "", Mappe |-> mappe, tables |-> tabs]
               ELSE IF w.found
               THEN [decision |-> "MatchesExisting", reason |-> "", mappa |-> w.mappa,
                     out |-> "D", Mappe |-> mappe, tables |-> tabs]
               ELSE [decision |-> "NewVariantOfSize", reason |-> "", mappa |-> w.mappa]
                    @@ StoreMap(w.mappa, camp, Tipo_Chip, "F", mappe, tabs, emptyRaises)
      ELSE LET Map_Name == FmtMapName(Len(camp), 0)
           IN  [decision |-> "BrandNew", reason |-> "", mappa |-> Map_Name]
               @@ StoreMap(Map_Name, camp, Tipo_Chip, "E", mappe, tabs, emptyRaises)

(***************************************************************************)
(* upload_file.py: the outcome vocabulary and the Map branch.              *)
(***************************************************************************)
\* config["decode_text_log_XDB"][tag]: the configured triple of a tag.  The
\* diagnostic template of a tag is represented by the tag itself.
OkTags == {"m_D", "m_E", "m_F", "g_D", "g_I", "g_K"}
DecodeTextLog(tag) ==
    [bit_ok |-> IF tag \in OkTags THEN 1 ELSE 0, bit_elaborato |-> 1,
     errori_elab |-> tag]

\* the if/elif chain on the output of Map_Flow.py; M_code keeps its value
\* (prev) when no branch is taken; "Error" is the critical branch
MapOutcomeShared(out, prev) ==
    CASE out = "A" -> "m_A"
      [] out = "B" -> "m_B"
      [] out = "C" -> "m_C"
      [] out = "D" -> "m_D"
      [] out = "E" -> "m_E"
      [] out = "F" -> "m_E"
      [] OTHER     -> prev

MapOutcome(out, prev) ==
    CASE out = "A" -> "m_A"
      [] out = "B" -> "m_B"
      [] out = "C" -> "m_C"
      [] out = "D" -> "m_D"
      [] out = "E" -> "m_E"
      [] out = "F" -> "m_F"
      [] OTHER     -> prev

\* the bits written at the end of the job: M_code = {} raises KeyError
StatusOf(code) ==
    IF code = "none" THEN "crash" ELSE DecodeTextLog(code)

(***************************************************************************)
(* Genotype_Map_Flow.py and Parentage_Genotyping.py: genotype decoding.    *)
(* A data row of the final report is [snp, sample, A1, A2]; the two        *)
(* scripts read the same file with the same loop.                          *)
(***************************************************************************)
\* config["decode_genotype"]: the code of an allele pair A1 + A2
DecodeGenotype ==
    ("AA" :> "0") @@ ("AB" :> "1") @@ ("BA" :> "1") @@ ("BB" :> "2")
    @@ ("--" :> "5")

\* the code of a position that no row has written
MissingCode == "5"

\* config["Mappa_verif_parentela"]: the table of the parentage map
Mappa_verif_parentela == "Mappa_verif_parentela"

\* a dict that keeps the first position of a name
SnpMapDictFirst(code_snpmap) ==
    LET keys == {Upper(code_snpmap[i]) : i \in DOMAIN code_snpmap}
    IN  [u \in keys |->
            (CHOOSE i \in DOMAIN code_snpmap :
                /\ Upper(code_snpmap[i]) = u
                /\ \A j \in DOMAIN code_snpmap :
                      Upper(code_snpmap[j]) = u => i <= j) - 1]

\* snpmap: the dict SNP_Name.upper() -> Sequence_no (0-based); of two names
\* equal after upper() the later position stays
SnpMapDict(code_snpmap) ==
    LET keys == {Upper(code_snpmap[i]) : i \in DOMAIN code_snpmap}
    IN  [u \in keys |->
            (CHOOSE i \in DOMAIN code_snpmap :
                /\ Upper(code_snpmap[i]) = u
                /\ \A j \in DOMAIN code_snpmap :
                      Upper(code_snpmap[j]) = u => j <= i) - 1]

\* the body of the loop for one data row.  st is [genotypes, not, err]:
\* the buffers of the samples seen, snp_finalrep_not, and whether an
\* exception other than KeyError was raised.
DecodeRow(st, row, snpmap) ==
    LET nSnp == Cardinality(DOMAIN snpmap)
        snpname == Upper(row.snp)
        g1 == IF row.sample \in DOMAIN st.genotypes
              THEN st.genotypes
              ELSE st.genotypes @@ (row.sample :> [i \in 1..nSnp |-> MissingCode])
        pair == row.A1 \o row.A2
    IN  IF st.err THEN st
        ELSE IF snpname \notin DOMAIN snpmap \/ pair \notin DOMAIN DecodeGenotype
        THEN [st EXCEPT !.genotypes = g1, !.not = @ \cup {snpname}]
        ELSE IF snpmap[snpname] >= nSnp
        THEN [st EXCEPT !.genotypes = g1, !.err = TRUE]
        ELSE [st EXCEPT !.genotypes =
                 [g1 EXCEPT ![row.sample] =
                     [@ EXCEPT ![snpmap[snpname] + 1] = DecodeGenotype[pair]]]]

\* the loop over the lines after the header
RECURSIVE DecodeRows(_, _)
DecodeRows(rows, snpmap) ==
    IF rows = <<>>
    THEN [genotypes |-> <<>>, not |-> {}, err |-> FALSE]
    ELSE DecodeRow(DecodeRows(SubSeq(rows, 1, Len(rows) - 1), snpmap),
                   rows[Len(rows)], snpmap)

\* snp_finalrep_not when the loop of a script is over
SnpFinalrepNot(rows, code_snpmap) == DecodeRows(rows, SnpMapDict(code_snpmap)).not

\* round(c / n, 4) in units of 1/10000 (ties to the even neighbour)
Round4(c, n) ==
    LET q == (c * 10000) \div n
        r == (c * 10000) % n
    IN  IF 2 * r < n THEN q
        ELSE IF 2 * r > n THEN q + 1
        ELSE IF q % 2 = 0 THEN q ELSE q + 1

\* (genotypes[sample] != '5').sum()
NonMissing(buffer) == Cardinality({i \in DOMAIN buffer : buffer[i] # MissingCode})

\* info_callrate: one entry per sample, CallRate in units of 1/10000
InfoCallrate(genotypes) ==
    {[Campione |-> sample,
      CallRate |-> Round4(NonMissing(genotypes[sample]), Len(genotypes[sample])),
      Genotipo |-> genotypes[sample]] : sample \in DOMAIN genotypes}

\* code_snpmap of Genotype_Map_Flow.py: the SNP names of the map that
\* upload_file.py selected for the final report (P.Mappa_Finalreport)
GmfCodeSnpmap(tabs, Mappa_Finalreport) == tabs[Mappa_Finalreport]

\* code_snpmap of Parentage_Genotyping.py: the SNP names of the parentage map
PgCodeSnpmap(tabs) == tabs[Mappa_verif_parentela]

\* Genotype_Map_Flow.py on the data rows of the file: the flag printed and
\* the rows inserted into Tmp_Finalreports.  An exception in the loop sets
\* exception_occurred (flag "A", nothing inserted); with no sample the
\* assignment of the three column names raises ValueError, which the script
\* takes for a wrong separator (flag "I", nothing inserted).
GenotypeMapFlow(Nume_Cari, rows, tabs, Mappa_Finalreport) ==
    LET d == DecodeRows(rows, SnpMapDict(GmfCodeSnpmap(tabs, Mappa_Finalreport)))
    IN  IF d.err THEN [out |-> "A", inserted |-> {}]
        ELSE [out |-> "I",
              inserted |-> {[Nume_Cari |-> Nume_Cari,
                             Campione |-> r.Campione, CallRate_G |-> r.CallRate,
                             mappa_usata_G |-> Mappa_Finalreport,
                             Genotipo |-> r.Genotipo,
                             Genotipo_parentela |-> <<>>] :
                            r \in InfoCallrate(d.genotypes)}]

\* Parentage_Genotyping.py on the same rows: the flag printed and the
\* staging rows after the UPDATE of Genotipo_parentela (<<>> is NULL)
ParentageGenotyping(Nume_Cari, rows, tabs, staging) ==
    IF PgCodeSnpmap(tabs) = <<>> THEN [out |-> "Error", staging |-> staging]
    ELSE
      LET d == DecodeRows(rows, SnpMapDict(PgCodeSnpmap(tabs)))
      IN  IF d.err THEN [out |-> "A", staging |-> staging]
          ELSE [out |-> "J",
                staging |-> {IF /\ t.Nume_Cari = Nume_Cari
                                /\ t.Campione \in DOMAIN d.genotypes
                             THEN [t EXCEPT !.Genotipo_parentela =
                                               d.genotypes[t.Campione]]
                             ELSE t : t \in staging}]

\* len(pd.merge(a, b, on='SNP Name', how='outer'))
OuterMergeLen(a, b) ==
    InnerMergeLen(a, b)
    + Cardinality({i \in DOMAIN a : \A j \in DOMAIN b : a[i] # b[j]})
    + Cardinality({j \in DOMAIN b : \A i \in DOMAIN a : a[i] # b[j]})

\* the SNP Name column of tmp_finalreports
SnpColumn(rows) == [i \in DOMAIN rows |-> rows[i].snp]

\* upload_file.py: the map consistency check before the scripts
MapConsistentAlways(rows, snp_map) == snp_map # <<>>

MapConsistent(rows, snp_map) ==
    LET tmp_finalreports == DropDuplicates(SnpColumn(rows))
        controlle == OuterMergeLen(tmp_finalreports, snp_map)
    IN  /\ snp_map # <<>>
        /\ controlle = Len(tmp_finalreports)
        /\ controlle = Len(snp_map)

\* upload_file.py: the if/elif chain on the output of a genotype script;
\* "Error" is the critical branch
ScriptOutcome(out, prev) ==
    CASE out = "C" -> "c_B"
      [] out = "A" -> "g_G"
      [] out \in {"I", "J"} -> "g_I"
      [] OTHER -> prev

(***************************************************************************)
(* upload_file.py: the polling loop and the processing of one job.         *)
(* A file of path_tmp is described by what the code reads from it: the     *)
(* number of members of the archive (0: no readable archive), whether its  *)
(* first line starts with [Header], for a map file whether the Index/Name  *)
(* header is found and the Name column (camp), for a final report the chip *)
(* name of its Content line ("" without one), whether the SNP Name header  *)
(* has the two allele columns, and its data rows.                          *)
(***************************************************************************)
\* the samples of the data rows
SamplesOf(rows) == {rows[i].sample : i \in DOMAIN rows}

\* freq: the number of rows of a sample
Freq(rows, sample) == Cardinality({i \in DOMAIN rows : rows[i].sample = sample})

\* max(freq[0]) != min(freq[0])
InconsistentCount(rows) ==
    \E c1, c2 \in SamplesOf(rows) : Freq(rows, c1) # Freq(rows, c2)

\* Tipo_Chip = int(len(tmp_finalreports) / len(freq))
TipoChipOf(rows) == Len(rows) \div Cardinality(SamplesOf(rows))

\* The map check: the values that Mappa_Finalreport can have after the loop
\* over the registry rows, which keeps the last row that matches (by
\* Map_Alias with a chip name, by Number_snp without) in the order of the
\* cursor.  With a chip name and no match the code reads the undefined name
\* nsnp in a second loop over the rows ("NameError").
ResolveMap(file, mappe) ==
    LET hits == IF file.chip # ""
                THEN {r \in mappe : r.Map_Alias = file.chip}
                ELSE {r \in mappe : r.Number_snp = TipoChipOf(file.rows)}
    IN  IF hits # {} THEN {r.Map_Name : r \in hits}
        ELSE IF file.chip # "" /\ mappe # {} THEN {"NameError"}
        ELSE {"missing_chip"}

\* the result of a branch: end is "write" (the job goes on to the status
\* write), "skip" (continue without a write), "critical" (criticalError,
\* then continue) or "crash" (uncaught exception)
BranchEnd(end, code, staging, summary) ==
    [end |-> end, M_code |-> code, staging |-> staging, summary |-> summary,
     mappa |-> ""]

\* after the loop over the scripts: code is M_code, out the last output
AfterScriptsKeepsCode(out, code, staging) ==
    IF out = "Error" THEN BranchEnd("critical", code, staging, FALSE)
    ELSE IF code = "none" THEN BranchEnd("crash", code, staging, FALSE)
    ELSE BranchEnd("write", code, staging, TRUE)

AfterScripts(out, code, staging) ==
    IF out = "Error" THEN BranchEnd("critical", code, staging, FALSE)
    ELSE IF code = "none" THEN BranchEnd("crash", code, staging, FALSE)
    ELSE IF DecodeTextLog(code).bit_ok = 1
    THEN BranchEnd("write", "c_B", staging, TRUE)
    ELSE BranchEnd("write", code, staging, TRUE)

\* the second script, on the staging rows left by the first
SecondScript(p, code) == AfterScripts(p.out, ScriptOutcome(p.out, code), p.staging)

\* the first script: g is its result
FirstScript(Nume_Cari, file, prev, tabs, staging, g) ==
    SecondScript(ParentageGenotyping(Nume_Cari, file.rows, tabs,
                                     staging \cup g.inserted),
                 ScriptOutcome(g.out, prev))

\* the two scripts and the outcome selected after them
GenotypeScripts(Nume_Cari, file, prev, tabs, staging, Mappa_Finalreport) ==
    FirstScript(Nume_Cari, file, prev, tabs, staging,
                GenotypeMapFlow(Nume_Cari, file.rows, tabs, Mappa_Finalreport))

\* the map check and what follows it: code is M_code before it, fault the
\* failure of the environment met by the job
MapCheck(Nume_Cari, file, code, tabs, staging, Mappa_Finalreport, fault) ==
    IF fault = "table" THEN BranchEnd("critical_crash", code, staging, FALSE)
    ELSE IF Mappa_Finalreport = "NameError" THEN BranchEnd("crash", code, staging, FALSE)
    ELSE IF Mappa_Finalreport = "missing_chip"
    THEN BranchEnd("write", "g_N", staging, FALSE)
    ELSE IF Mappa_Finalreport \notin DOMAIN tabs
    THEN BranchEnd("critical", code, staging, FALSE)
    ELSE IF tabs[Mappa_Finalreport] = <<>>
    THEN BranchEnd("write", code, staging, TRUE)
    ELSE IF ~MapConsistent(file.rows, tabs[Mappa_Finalreport])
    THEN BranchEnd("write", "g_N", staging, TRUE)
    ELSE IF fault = "script" THEN BranchEnd("critical", code, staging, FALSE)
    ELSE GenotypeScripts(Nume_Cari, file, code, tabs, staging, Mappa_Finalreport)

\* config["lista_simbolo"]: the candidate separators, in order
lista_simbolo == <<"\t", ";">>

\* the two columns of a data row that upload_file.py keeps in camp
CampRows(rows) ==
    [i \in DOMAIN rows |-> [sample |-> rows[i].sample, snp |-> rows[i].snp]]

\* blocco, File_Final_Report and camp before the loop over the separators
NoScan == [blocco |-> "", File_Final_Report |-> "", camp |-> <<>>]

\* one pass of the loop over config["lista_simbolo"] for a final report
\* without chip names: sc is blocco, File_Final_Report and camp before the
\* pass; fsep is the separator of the file, cols tells that its "SNP Name"
\* line has the two allele columns; a line split by another separator than
\* that of the file is one token
ScanPass(sc, simbolo, fsep, cols, rows) ==
    IF sc.blocco = "trovato_separator" /\ sc.camp # <<>> THEN sc
    ELSE IF simbolo = fsep /\ cols
    THEN [blocco |-> "trovato_separator",
          File_Final_Report |-> IF sc.File_Final_Report = "missing" THEN "missing"
                                ELSE IF rows # <<>> THEN "notmissing"
                                ELSE sc.File_Final_Report,
          camp |-> IF sc.File_Final_Report = "missing" THEN sc.camp
                   ELSE sc.camp \o CampRows(rows)]
    ELSE [sc EXCEPT !.File_Final_Report = "missing"]

\* for simbolo in config["lista_simbolo"], from the state sc
RECURSIVE ScanFinalReport(_, _, _, _, _)
ScanFinalReport(sc, lista, fsep, cols, rows) ==
    IF lista = <<>> THEN sc
    ELSE ScanFinalReport(ScanPass(sc, Head(lista), fsep, cols, rows),
                         Tail(lista), fsep, cols, rows)

\* the outcome that the scan gives to a final report without chip names:
\* "prev" leaves M_code as it is, "check" goes on to the map check
ScanOutcomeNoCount(sc) ==
    IF sc.blocco # "trovato_separator" THEN "prev"
    ELSE IF sc.File_Final_Report = "missing" THEN "g_E"
    ELSE "check"

ScanOutcome(sc) ==
    IF sc.blocco # "trovato_separator" THEN "prev"
    ELSE IF sc.File_Final_Report = "missing" THEN "g_E"
    ELSE IF InconsistentCount(sc.camp) THEN "g_E"
    ELSE "check"

\* the separators that a file can have
Separators == {"\t", ";", ","}

\* the data rows that the loop over config["lista_simbolo"] of a decoding
\* script reads from a file with separator fsep: with another separator a
\* line is one token, h.index raises ValueError and the pass is left
ParsedRows(fsep, rows) ==
    IF \E i \in DOMAIN lista_simbolo : lista_simbolo[i] = fsep THEN rows ELSE <<>>

\* the Genotype branch for the file of the job; prev is M_code before it;
\* mappa is the value of Mappa_Finalreport when the map check was made
GenotypeBranch(Nume_Cari, file, prev, mappe, tabs, staging, Mappa_Finalreport, fault) ==
    IF file.members # 1 THEN BranchEnd("skip", "g_H", staging, FALSE)
    ELSE IF file.chip = "" /\ ScanOutcome(ScanFinalReport(NoScan, lista_simbolo,
                                   file.sep, file.cols, file.rows)) = "g_E"
    THEN BranchEnd("write", "g_E", staging, FALSE)
    ELSE IF file.chip = "" /\ ScanOutcome(ScanFinalReport(NoScan, lista_simbolo,
                                   file.sep, file.cols, file.rows)) = "prev"
    THEN BranchEnd("write", prev, staging, FALSE)
    ELSE IF ~file.cols THEN BranchEnd("write", prev, staging, FALSE)
    ELSE [MapCheck(Nume_Cari, file, IF file.chip = "" THEN "g_D" ELSE prev,
                   tabs, staging, Mappa_Finalreport, fault)
          EXCEPT !.mappa = Mappa_Finalreport]

\* the flag printed by Map_Flow.py for the file, with the registry it leaves
MapScript(file, Nome_Map, Tipo_Chip, order, mappe, tabs, emptyRaises, fault) ==
    IF file.members # 1 THEN [out |-> "C", Mappe |-> mappe, tables |-> tabs]
    ELSE IF ~file.index THEN [out |-> "B", Mappe |-> mappe, tables |-> tabs]
    ELSE IF fault = "table" THEN [out |-> "", Mappe |-> mappe, tables |-> tabs]
    ELSE LET r == MapFlow(file.camp, Nome_Map, Tipo_Chip, order, mappe, tabs,
                          emptyRaises)
         IN  [out |-> r.out, Mappe |-> r.Mappe, tables |-> r.tables]

\* the classification of the job against the first line of its file
TypeMismatchMapOnly(Tipo_Cari, file) ==
    /\ file.members = 1
    /\ Tipo_Cari = "M" /\ file.header

TypeMismatch(Tipo_Cari, file) ==
    /\ file.members = 1
    /\ \/ Tipo_Cari = "M" /\ file.header
       \/ Tipo_Cari = "G" /\ ~file.header

\* aggiorna_bit
AggiornaBitBitsOnly(table, Nume_Cari, bit_ok, bit_elaborato, errori_elab) ==
    [table EXCEPT ![Nume_Cari] =
        [@ EXCEPT !.Bit_OK = bit_ok, !.Bit_elaborato = bit_elaborato]]

AggiornaBit(table, Nume_Cari, bit_ok, bit_elaborato, errori_elab) ==
    [table EXCEPT ![Nume_Cari] =
        [@ EXCEPT !.Bit_OK = bit_ok, !.Bit_elaborato = bit_elaborato,
                  !.Errori_elab = errori_elab]]

\* criticalError with msg_elab "": the status it passes to aggiorna_bit
CriticalStatusProcessed(config) ==
    [bit_ok |-> 0, bit_elaborato |-> 1, errori_elab |-> config["c_B"].errori_elab]

CriticalStatus(config) ==
    [bit_ok |-> 0, bit_elaborato |-> 0, errori_elab |-> config["c_B"].errori_elab]

\* criticalError with msg_elab "": the status written for the job
CriticalError(table, Nume_Cari, config) ==
    AggiornaBit(table, Nume_Cari, CriticalStatus(config).bit_ok,
                CriticalStatus(config).bit_elaborato,
                CriticalStatus(config).errori_elab)

\* report_summary of the job
ReportSummary(Nume_Cari) == "summary_" \o ToString(Nume_Cari)

\* fillna(-1), then the records with bit_elaborato == 0; NULL is -1 here
NewRecordsWithNull(table) ==
    {id \in DOMAIN table : table[id].Bit_elaborato \in {0, -1}}

NewRecords(table) ==
    {id \in DOMAIN table : table[id].Bit_elaborato = 0}

\* the order of sort_values(by=['Nume_Cari', 'Data_Cari'])
SortKeyLeq(table, x, y) ==
    \/ x < y
    \/ x = y /\ table[x].Data_Cari <= table[y].Data_Cari

\* new_records sorted, as the list ids
RECURSIVE SortedIds(_, _)
SortedIds(table, S) ==
    IF S = {} THEN <<>>
    ELSE LET m == CHOOSE x \in S : \A y \in S : SortKeyLeq(table, x, y)
         IN  <<m>> \o SortedIds(table, S \ {m})

(***************************************************************************)
(* Inputs of the Map pipeline.                                             *)
(***************************************************************************)
SnpNames == {<<>>, <<"a">>, <<"A">>}

RECURSIVE SeqsUpTo(_, _)
SeqsUpTo(S, n) ==
    IF n = 0 THEN {<<>>}
    ELSE LET shorter == SeqsUpTo(S, n - 1)
         IN  shorter \cup {Append(s, x) : s \in {t \in shorter : Len(t) = n - 1}, x \in S}

LongChars == <<"0", "1", "2", "3", "4", "5", "6", "7", "8", "9", "x", "y">>
LongMap == [i \in 1..LongLen |-> <<"s", LongChars[i]>>]

\* name lists with a whitespace-only name
BlankInputs == {<< <<" ">> >>, << <<"a">>, <<" ">> >>}

CampInputs == SeqsUpTo(SnpNames, MaxLen) \cup BlankInputs \cup {LongMap}
NomeMaps == {"MAP_1.zip", NomeIcar}
Aliases == {"chipA"}

NoRun == [camp |-> <<>>, Nome_Map |-> "", out |-> "-", decision |-> "-",
          reason |-> "", mappa |-> "", M_code |-> "none", written |-> "none",
          pre |-> {}, preTables |-> <<>>, rerun |-> FALSE, first |-> ""]

\* no genotype script has run on the file of the job
NoDecodeRun == [rows |-> <<>>, Mappa_Finalreport |-> "", phase |-> "-",
                gmf |-> "-", pg |-> "-", M_code |-> "none", not |-> {}]

\* the outcome tags of the configuration
Tags == {"c_A", "c_B", "m_A", "m_B", "m_C", "m_D", "m_E", "m_F", "g_A",
         "g_B", "g_C", "g_D", "g_E", "g_G", "g_H", "g_I", "g_K", "g_N"}

\* upload_file.py at its start: the configuration as loaded, no job in the
\* table, no poll made
InitJobs ==
    /\ Code_Caricamenti = <<>>
    /\ decode_text_log_XDB = [t \in Tags |-> DecodeTextLog(t)]
    /\ pc = "idle"
    /\ ids = <<>>
    /\ M_code = "none"
    /\ batch = {}
    /\ infra = {}
    /\ gNume_Cari = 0
    /\ writes = <<>>

\* no run of the loop over the separators
NoScanRun ==
    [lista |-> <<>>, sep |-> "", cols |-> FALSE, rows |-> <<>>, done |-> FALSE,
     result |-> NoScan]

\* no call of criticalError is being followed
NoCriticalCall ==
    [mainParametri |-> TRUE, templatesParametri |-> TRUE, store |-> TRUE,
     stack |-> <<>>, updates |-> 0, writes |-> 0, sleeps |-> 0,
     returned |-> FALSE, raised |-> FALSE]

\* no sample summary has run
NoSummaryRun ==
    [M_code |-> DecodeTextLog("none"), final |-> {}, archive |-> {},
     staged |-> {}, raises |-> FALSE, done |-> FALSE,
     out |-> DecodeTextLog("none"), critical |-> 0]

\* the main loop not yet entered
ClockAtStart ==
    /\ max_seconds_to_run = 0
    /\ now = 0
    /\ start_time = 0
    /\ end_time = 0
    /\ lp = "start"
    /\ polls = 0
    /\ sec = 0
    /\ scan = NoScanRun
    /\ rep = NoSummaryRun
    /\ crit = NoCriticalCall

InitMap ==
    /\ Mappe = {}
    /\ tables = <<>>
    /\ mrun = NoRun
    /\ Tmp_Finalreports = {}
    /\ drun = NoDecodeRun
    /\ InitJobs
    /\ ClockAtStart

\* the record of one run of the Map pipeline: Map_Flow.py on camp, then the
\* outcome selected by upload_file.py from M_code and the status written
MapRun(camp, nome, r, prev, rerun, first) ==
    LET code == MapOutcome(r.out, prev)
    IN  [camp |-> camp, Nome_Map |-> nome, out |-> r.out,
         decision |-> r.decision, reason |-> r.reason, mappa |-> r.mappa,
         M_code |-> code, written |-> StatusOf(code),
         pre |-> Mappe, preTables |-> tables, rerun |-> rerun, first |-> first]

\* The first Map job of a poll, with an archive of one member and a
\* recognised header: Map_Flow.py runs on the names of the file, then
\* upload_file.py selects the outcome (M_code is {} at the start of the
\* poll) and writes the status of the job.
RunMapJob ==
    /\ mrun = NoRun
    /\ \E camp \in CampInputs, nome \in NomeMaps, chip \in Aliases,
          order \in KeyOrders(Mappe) :
       \E emptyRaises \in (IF camp = <<>> THEN BOOLEAN ELSE {FALSE}) :
        LET r == MapFlow(camp, nome, chip, order, Mappe, tables, emptyRaises)
        IN  /\ Cardinality(r.Mappe) <= MaxMaps
            /\ Mappe' = r.Mappe
            /\ tables' = r.tables
            /\ mrun' = MapRun(camp, nome, r, "none", FALSE, "")
            /\ UNCHANGED <<decodeVars, jobVars, clockVars, scan, rep, crit>>

\* the archives on which Map_Flow.py ends before it has a name list: more
\* than one member (flag C), no Index / Name header (flag B)
ScanFailures ==
    {[members |-> 2, index |-> TRUE, camp |-> <<>>, decision |-> "MultiFileArchive"],
     [members |-> 1, index |-> FALSE, camp |-> <<>>, decision |-> "HeaderNotFound"]}

\* The first Map job of a poll, with an archive that Map_Flow.py gives up
\* on while it reads it.
RunMapScan ==
    /\ mrun = NoRun
    /\ \E file \in ScanFailures, nome \in NomeMaps, chip \in Aliases :
        \E r \in {MapScript(file, nome, chip, <<>>, Mappe, tables, FALSE, "none")} :
            /\ mrun' = MapRun(<<>>, nome,
                              [out |-> r.out, decision |-> file.decision,
                               reason |-> "", mappa |-> ""],
                              "none", FALSE, "")
            /\ UNCHANGED <<Mappe, tables>>
            /\ UNCHANGED <<decodeVars, jobVars, clockVars, scan, rep, crit>>

\* A second Map job of the same poll that carries the same file (same name,
\* same SNP names) as the job before it, which stored a map: M_code still
\* holds the outcome of the first job.
\* the statements of a registration that can raise after the commit of the
\* registry row: CREATE TABLE, or the executemany of the SNP names
StoreSteps == {"create", "insert"}

\* the result r of Map_Flow.py when the statement `raises` of its
\* registration raises: the commits before it stay, the script ends with
\* nothing on stdout
Interrupted(r, raises, tabs) ==
    IF r.out \notin {"E", "F"} THEN r
    ELSE [r EXCEPT !.out = "",
                   !.tables = IF raises = "create" THEN tabs
                              ELSE tabs @@ (r.mappa :> <<>>)]

\* a Map job whose registration is interrupted
RunMapJobInterrupted ==
    /\ mrun = NoRun
    /\ \E camp \in CampInputs, nome \in NomeMaps, chip \in Aliases,
          order \in KeyOrders(Mappe), raises \in StoreSteps :
        \E r \in {Interrupted(MapFlow(camp, nome, chip, order, Mappe, tables, FALSE),
                              raises, tables)} :
            /\ camp # <<>>
            /\ r.out = ""
            /\ r.decision \in {"BrandNew", "NewVariantOfSize"}
            /\ Cardinality(r.Mappe) <= MaxMaps
            /\ Mappe' = r.Mappe
            /\ tables' = r.tables
            /\ mrun' = MapRun(camp, nome, r, "none", FALSE, "")
            /\ UNCHANGED <<decodeVars, jobVars, clockVars, scan, rep, crit>>

RerunMapJob ==
    /\ mrun # NoRun
    /\ ~mrun.rerun
    /\ mrun.decision \in {"BrandNew", "NewVariantOfSize"}
    /\ \E chip \in Aliases, order \in KeyOrders(Mappe) :
       \E emptyRaises \in (IF mrun.camp = <<>> THEN BOOLEAN ELSE {FALSE}) :
        LET r == MapFlow(mrun.camp, mrun.Nome_Map, chip, order, Mappe, tables,
                         emptyRaises)
        IN  /\ Cardinality(r.Mappe) <= MaxMaps
            /\ Mappe' = r.Mappe
            /\ tables' = r.tables
            /\ mrun' = MapRun(mrun.camp, mrun.Nome_Map, r, mrun.M_code, TRUE,
                              mrun.mappa)
            /\ UNCHANGED <<decodeVars, jobVars, clockVars, scan, rep, crit>>

\* the next poll starts: M_code = {} and the bits are reset
NextPollMap ==
    /\ mrun # NoRun
    /\ mrun' = NoRun
    /\ UNCHANGED <<Mappe, tables>>
    /\ UNCHANGED <<decodeVars, jobVars, clockVars, scan, rep, crit>>

NextMap == RunMapJob \/ RunMapScan \/ RerunMapJob \/ NextPollMap

SpecMap == InitMap /\ [][NextMap]_vars

\* the Map jobs of a run in which a statement of a registration can raise
NextMapCrash == RunMapJob \/ RunMapJobInterrupted \/ NextPollMap

SpecMapCrash == InitMap /\ [][NextMapCrash]_vars

(***************************************************************************)
(* The genotype scripts on one final report (SpecDecode).                  *)
(***************************************************************************)
MapSnps == {<<"a">>, <<"A">>, <<"b">>}
Samples == {"s1", "s2"}
AllelePairs == {<<"A", "A">>, <<"A", "B">>, <<"A", "X">>}

\* chip maps: name lists that Map_Flow.py stores as a new map
DecodeMaps ==
    {camp \in {<< <<"a">> >>, << <<"A">> >>, << <<"a">>, <<"b">> >>,
               << <<"b">>, <<"a">> >>, << <<"a">>, <<"A">> >>} :
        MapFlow(camp, "MAP_1.zip", "chipA", <<>>, {}, <<>>, FALSE).out = "E"}

ParentageMaps == {<< <<"b">>, <<"a">> >>, << <<"a">>, <<"A">>, <<"b">> >>}

\* the data rows with a SNP name of names
FileRows(names) ==
    {[snp |-> n, sample |-> c, A1 |-> p[1], A2 |-> p[2]] :
        n \in names, c \in Samples, p \in AllelePairs}

\* the registry after the load of one chip map, with the parentage map
InitDecode ==
    /\ \E camp \in DecodeMaps, par \in ParentageMaps :
        LET r == MapFlow(camp, "MAP_1.zip", "chipA", <<>>, {}, <<>>, FALSE)
        IN  /\ Mappe = r.Mappe
            /\ tables = r.tables @@ (Mappa_verif_parentela :> par)
    /\ mrun = NoRun
    /\ Tmp_Finalreports = {}
    /\ drun = NoDecodeRun
    /\ InitJobs
    /\ ClockAtStart

\* upload_file.py runs Genotype_Map_Flow.py on a final report whose SNP
\* names passed the consistency check against the map of the registry (a
\* file with a name that the map does not hold never passes, so the rows
\* are drawn with the names of the map)
RunGenotypeMapFlow ==
    /\ drun.phase = "-"
    /\ \E row \in Mappe :
       \E rows \in SeqsUpTo(FileRows(MapSnps \cap {tables[row.Map_Name][i] :
                                  i \in DOMAIN tables[row.Map_Name]}), MaxRows) :
        /\ MapConsistent(rows, tables[row.Map_Name])
        /\ \E fsep \in Separators :
           \E r \in {GenotypeMapFlow(1, ParsedRows(fsep, rows), tables, row.Map_Name)} :
               /\ Tmp_Finalreports' = Tmp_Finalreports \cup r.inserted
               /\ drun' = [rows |-> ParsedRows(fsep, rows),
                           Mappa_Finalreport |-> row.Map_Name,
                           phase |-> "gmf", gmf |-> r.out, pg |-> "-",
                           M_code |-> ScriptOutcome(r.out, "g_D"),
                           not |-> SnpFinalrepNot(ParsedRows(fsep, rows),
                                       GmfCodeSnpmap(tables, row.Map_Name))]
    /\ UNCHANGED <<mapVars, jobVars, clockVars, scan, rep, crit>>

\* then Parentage_Genotyping.py on the same file
RunParentageGenotyping ==
    /\ drun.phase = "gmf"
    /\ LET r == ParentageGenotyping(1, drun.rows, tables, Tmp_Finalreports)
       IN  /\ Tmp_Finalreports' = r.staging
           /\ drun' = [drun EXCEPT !.phase = "pg", !.pg = r.out,
                                   !.M_code = ScriptOutcome(r.out, @),
                                   !.not = SnpFinalrepNot(drun.rows,
                                               PgCodeSnpmap(tables))]
    /\ UNCHANGED <<mapVars, jobVars, clockVars, scan, rep, crit>>

NextDecode == RunGenotypeMapFlow \/ RunParentageGenotyping

SpecDecode == InitDecode /\ [][NextDecode]_vars

(***************************************************************************)
(* The polling loop of upload_file.py (Spec).                              *)
(***************************************************************************)
MapFile(camp) ==
    [members |-> 1, header |-> FALSE, index |-> TRUE, camp |-> camp,
     chip |-> "", cols |-> FALSE, rows |-> <<>>, sep |-> "\t"]

FinalReport(chip, cols, rows) ==
    [members |-> 1, header |-> TRUE, index |-> FALSE, camp |-> <<>>,
     chip |-> chip, cols |-> cols, rows |-> rows, sep |-> "\t"]

RowsAB ==
    << [snp |-> <<"a">>, sample |-> "s1", A1 |-> "A", A2 |-> "A"],
       [snp |-> <<"b">>, sample |-> "s1", A1 |-> "A", A2 |-> "B"] >>

RowsUneven ==
    << [snp |-> <<"a">>, sample |-> "s1", A1 |-> "A", A2 |-> "A"],
       [snp |-> <<"a">>, sample |-> "s2", A1 |-> "A", A2 |-> "B"],
       [snp |-> <<"b">>, sample |-> "s2", A1 |-> "B", A2 |-> "B"] >>

\* the files of path_tmp, by Nome_File
Files ==
    [MAP_ab     |-> MapFile(<< <<"a">>, <<"b">> >>),
     MAP_aA     |-> MapFile(<< <<"a">>, <<"A">> >>),
     MAP_dup    |-> MapFile(<< <<"a">>, <<"a">> >>),
     MAP_noidx  |-> [MapFile(<< <<"a">> >>) EXCEPT !.index = FALSE],
     GEN_ab     |-> FinalReport("", TRUE, RowsAB),
     GEN_uneven |-> FinalReport("", TRUE, RowsUneven),
     GEN_chip   |-> FinalReport("chipA", TRUE, RowsUneven),
     GEN_nocols |-> FinalReport("", FALSE, <<>>),
     GEN_sub    |-> FinalReport("chipA", TRUE,
                        << [snp |-> <<"a">>, sample |-> "s1", A1 |-> "A", A2 |-> "A"] >>),
     GEN_semi   |-> [FinalReport("", TRUE, RowsAB) EXCEPT !.sep = ";"],
     two_files  |-> [MapFile(<<>>) EXCEPT !.members = 2],
     no_file    |-> [MapFile(<<>>) EXCEPT !.members = 0]]

\* the values of P.Tipo_Chip that a Map job can find in the parameters
JobAliases == {"chipA", "chipB"}

\* the failures of the environment that a job can meet: config["path_tmp"] is
\* not a directory (Case18), the script to run is not found, the UPDATE of
\* the status fails, GEN.[Folder_Mappa] is absent, the query of the sample
\* summary raises
Faults == {"none", "dir", "script", "db", "table", "summary"}

\* the values of Data_Cari that the external system gives to a job
Dates == {1, 2}

Init ==
    /\ Mappe = {}
    /\ tables = (Mappa_verif_parentela :> << <<"b">>, <<"a">> >>)
    /\ mrun = NoRun
    /\ Tmp_Finalreports = {}
    /\ drun = NoDecodeRun
    /\ InitJobs
    /\ ClockAtStart

\* the external system inserts a job record, processed bit 0 or unset (-1)
SubmitJob ==
    /\ pc = "idle"
    /\ Cardinality(DOMAIN Code_Caricamenti) < MaxJobs
    /\ \E Tipo_Cari \in {"M", "G"}, Nome_file \in DOMAIN Files,
          bit \in {0, -1}, Data_Cari \in Dates :
        Code_Caricamenti' = Code_Caricamenti @@
            ((Cardinality(DOMAIN Code_Caricamenti) + 1) :>
                [Tipo_Cari |-> Tipo_Cari, Nome_file |-> Nome_file,
                 Data_Cari |-> Data_Cari,
                 Bit_OK |-> -1, Bit_elaborato |-> bit, Errori_elab |-> ""])
    /\ UNCHANGED <<scan, rep, crit, clockVars, mapVars, decodeVars, decode_text_log_XDB, pc, ids, M_code,
                   batch, infra, gNume_Cari, writes>>

\* one iteration of the main loop up to the loop over ids: M_code = {}, the
\* table is read and the pending ids are sorted
StartPoll ==
    /\ pc = "idle"
    /\ NewRecords(Code_Caricamenti) # {}
    /\ ids' = SortedIds(Code_Caricamenti, NewRecords(Code_Caricamenti))
    /\ batch' = NewRecords(Code_Caricamenti)
    /\ pc' = "batch"
    /\ M_code' = "none"
    /\ infra' = {}
    /\ UNCHANGED <<scan, rep, crit, clockVars, mapVars, decodeVars, Code_Caricamenti, decode_text_log_XDB,
                   gNume_Cari, writes>>

\* the values of Mappa_Finalreport that the map check can leave for the job
MapChoices(Tipo_Cari, file, mappe) ==
    IF Tipo_Cari = "G" /\ file.members = 1 /\ file.header /\ file.cols
    THEN ResolveMap(file, mappe)
    ELSE {"missing_chip"}

\* the orders of the keys of nsnp and the values of P.Tipo_Chip that the job
\* can meet: only Map_Flow.py reads them
OrderChoices(Tipo_Cari, mappe) ==
    IF Tipo_Cari = "M" THEN KeyOrders(mappe)
    ELSE {CHOOSE order \in KeyOrders(mappe) : TRUE}

AliasChoices(Tipo_Cari) ==
    IF Tipo_Cari = "M" THEN JobAliases ELSE {CHOOSE a \in JobAliases : TRUE}

\* the state after a step of a job: st is [crash, table, config, M_code,
\* Mappe, tables, staging, infraHit, writes, mappa]
\* a call of aggiorna_bit that succeeds: w is the status passed
Execute(st, Nume_Cari, w) ==
    [st EXCEPT !.table = AggiornaBit(@, Nume_Cari, w.bit_ok, w.bit_elaborato,
                                     w.errori_elab),
               !.writes = Append(@, [Nume_Cari |-> Nume_Cari, bit_ok |-> w.bit_ok,
                                     bit_elaborato |-> w.bit_elaborato,
                                     errori_elab |-> w.errori_elab])]

\* criticalError, then continue
Critical(st, Nume_Cari) ==
    [Execute(st, Nume_Cari, CriticalStatus(st.config)) EXCEPT !.infraHit = TRUE]

\* the sample summary: criticalError when the job has no staged row, then
\* M_code["errori_elab"] = report_summary, in the dict of the configuration
\* that M_code refers to
Summarise(st, Nume_Cari) ==
    IF st.M_code = "none" THEN st
    ELSE [st EXCEPT !.config = [@ EXCEPT ![st.M_code].errori_elab =
                                            ReportSummary(Nume_Cari)]]

\* Case 51_0: criticalError when the job has no row in the staging table;
\* the summary goes on after it
EmptyStaging(st, Nume_Cari) ==
    IF {t \in st.staging : t.Nume_Cari = Nume_Cari} = {}
    THEN Execute(st, Nume_Cari, CriticalStatus(st.config))
    ELSE st

\* the status write at the end of the job: M_code["bit_ok"] raises KeyError
\* on {}; when the store is unreachable no UPDATE of the iteration succeeds
Finish(st, Nume_Cari, fault) ==
    IF st.M_code = "none" THEN [st EXCEPT !.crash = TRUE]
    ELSE IF fault = "db"
    THEN [st EXCEPT !.table = Code_Caricamenti, !.writes = <<>>,
                    !.infraHit = TRUE]
    ELSE Execute(st, Nume_Cari, st.config[st.M_code])

\* the Map branch after Map_Flow.py: r is its result
MapEnd(st, r, Nume_Cari, fault) ==
    IF r.out = "Error"
    THEN Critical([st EXCEPT !.Mappe = r.Mappe, !.tables = r.tables], Nume_Cari)
    ELSE Finish([st EXCEPT !.Mappe = r.Mappe, !.tables = r.tables,
                           !.M_code = MapOutcome(r.out, st.M_code)],
                Nume_Cari, fault)

\* the way the loop body ends after the Genotype branch
GenotypeEnd(st, end, summary, Nume_Cari, fault) ==
    CASE end = "crash" -> [st EXCEPT !.crash = TRUE]
      [] end = "skip" -> st
      [] end = "critical" -> Critical(st, Nume_Cari)
      [] end = "critical_crash" -> [Critical(st, Nume_Cari) EXCEPT !.crash = TRUE]
      [] OTHER -> Finish(IF summary /\ fault = "summary"
                         THEN Execute(st, Nume_Cari, CriticalStatus(st.config))
                         ELSE IF summary
                         THEN Summarise(EmptyStaging(st, Nume_Cari), Nume_Cari)
                         ELSE st,
                         Nume_Cari, fault)

\* the Genotype branch: b is its result
GenotypeJob(st, b, Nume_Cari, fault) ==
    GenotypeEnd([st EXCEPT !.M_code = b.M_code, !.staging = b.staging,
                           !.mappa = b.mappa],
                b.end, b.summary, Nume_Cari, fault)

\* the body of the loop over ids for one job
JobStep(Nume_Cari, fault, order, Tipo_Chip, Mappa_Finalreport) ==
    LET job  == Code_Caricamenti[Nume_Cari]
        file == Files[job.Nome_file]
        st   == [crash |-> FALSE, table |-> Code_Caricamenti,
                 config |-> decode_text_log_XDB, M_code |-> M_code,
                 Mappe |-> Mappe, tables |-> tables,
                 staging |-> Tmp_Finalreports, infraHit |-> FALSE,
                 writes |-> <<>>, mappa |-> ""]
    IN  IF file.members = 0 THEN [st EXCEPT !.crash = TRUE]
        ELSE IF TypeMismatch(job.Tipo_Cari, file)
        THEN Finish([st EXCEPT !.M_code = "c_A"], Nume_Cari, fault)
        ELSE IF job.Tipo_Cari = "M"
        THEN IF fault = "dir" THEN [Critical(st, Nume_Cari) EXCEPT !.crash = TRUE]
             ELSE IF fault = "script" THEN Critical(st, Nume_Cari)
             ELSE MapEnd(st, MapScript(file, job.Nome_file, Tipo_Chip, order,
                                       Mappe, tables, FALSE, fault),
                         Nume_Cari, fault)
        ELSE GenotypeJob(st, GenotypeBranch(Nume_Cari, file, M_code, Mappe, tables,
                                            Tmp_Finalreports, Mappa_Finalreport,
                                            fault),
                         Nume_Cari, fault)

\* the loop over ids takes the next job of the batch
ProcessJob ==
    /\ pc = "batch"
    /\ ids # <<>>
    /\ LET Nume_Cari == Head(ids)
           job == Code_Caricamenti[Nume_Cari]
       IN  \E fault \in Faults, order \in OrderChoices(job.Tipo_Cari, Mappe),
              Tipo_Chip \in AliasChoices(job.Tipo_Cari),
              Mappa_Finalreport \in MapChoices(job.Tipo_Cari, Files[job.Nome_file], Mappe) :
            \E st \in {JobStep(Nume_Cari, fault, order, Tipo_Chip, Mappa_Finalreport)} :
                /\ Cardinality(st.Mappe) <= MaxMaps
                /\ pc' = IF st.crash THEN "crashed" ELSE "batch"
                /\ ids' = IF st.crash THEN ids ELSE Tail(ids)
                /\ Code_Caricamenti' = st.table
                /\ decode_text_log_XDB' = st.config
                /\ M_code' = st.M_code
                /\ Mappe' = st.Mappe
                /\ tables' = st.tables
                /\ Tmp_Finalreports' = st.staging
                /\ infra' = IF st.infraHit THEN infra \cup {Nume_Cari} ELSE infra
                /\ writes' = st.writes
                /\ gNume_Cari' = Nume_Cari
                /\ drun' = [NoDecodeRun EXCEPT !.Mappa_Finalreport = st.mappa]
    /\ UNCHANGED <<scan, rep, crit, clockVars, mrun, batch>>

\* the loop over ids is exhausted: the poll ends
EndPoll ==
    /\ pc = "batch"
    /\ ids = <<>>
    /\ pc' = "idle"
    /\ UNCHANGED <<scan, rep, crit, clockVars, mapVars, decodeVars, Code_Caricamenti, decode_text_log_XDB,
                   ids, M_code, batch, infra, gNume_Cari, writes>>

\* an iteration of the main loop whose read of the job table raises (Case10,
\* Case11, Case12): criticalError is called with msg_elab "", so it calls
\* aggiorna_bit for the global Nume_Cari, the job started last; the name is
\* unbound before the first job (NameError); the UPDATE succeeds or fails
PollFails ==
    /\ pc = "idle"
    /\ IF gNume_Cari = 0
       THEN /\ pc' = "crashed"
            /\ UNCHANGED <<Code_Caricamenti, writes>>
       ELSE /\ pc' = pc
            /\ \E updated \in BOOLEAN :
                 \E st \in {IF updated
                            THEN Execute([table |-> Code_Caricamenti, writes |-> <<>>],
                                         gNume_Cari,
                                         CriticalStatus(decode_text_log_XDB))
                            ELSE [table |-> Code_Caricamenti, writes |-> <<>>]} :
                    /\ Code_Caricamenti' = st.table
                    /\ writes' = st.writes
    /\ M_code' = "none"
    /\ UNCHANGED <<scan, rep, crit, clockVars, mapVars, decodeVars, decode_text_log_XDB, ids, batch, infra,
                   gNume_Cari>>

\* max_seconds: the budget has elapsed, no further poll is made
BudgetElapsed ==
    /\ pc = "idle"
    /\ pc' = "done"
    /\ UNCHANGED <<scan, rep, crit, clockVars, mapVars, decodeVars, Code_Caricamenti, decode_text_log_XDB,
                   ids, M_code, batch, infra, gNume_Cari, writes>>

Next ==
    SubmitJob \/ StartPoll \/ PollFails \/ ProcessJob \/ EndPoll \/ BudgetElapsed

Spec == Init /\ [][Next]_vars

(***************************************************************************)
(* upload_file.py: max_seconds, the generator that drives the main loop.   *)
(* time.time() is a float; the model counts it in ticks of 1/Tick second,  *)
(* so that round() and int() act on fractions of a second.                 *)
(***************************************************************************)
\* ticks in one second
Tick == 4

\* for sec in max_seconds(D, interval=1)
interval == 1

\* int(round(x)) for x >= 0 given in ticks: Python rounds a half to even
RoundSec(x) ==
    LET q == x \div Tick
        r == x % Tick
    IN  IF 2 * r < Tick THEN q
        ELSE IF 2 * r > Tick THEN q + 1
        ELSE IF q % 2 = 0 THEN q ELSE q + 1

\* next_time = start_time; while next_time < time.time(): next_time += interval
RECURSIVE NextTime(_, _)
NextTime(next_time, t) ==
    IF next_time < t THEN NextTime(next_time + interval * Tick, t) ELSE next_time

\* max_seconds from a resumption to its next yield or its return, at time t:
\* the test after the yield (not made after `yield 0`), the test of the
\* while, the sleep, the yield
Resumed(t, start, end, yielded) ==
    IF yielded > 1 /\ RoundSec(t + interval * Tick) > RoundSec(end)
    THEN [lp |-> "end", now |-> t]
    ELSE IF ~(t < end)
    THEN [lp |-> "end", now |-> t]
    ELSE [lp |-> "poll",
          now |-> t + RoundSec(NextTime(start, t) - t) * Tick]

InitClock ==
    /\ Mappe = {}
    /\ tables = (Mappa_verif_parentela :> << <<"b">>, <<"a">> >>)
    /\ mrun = NoRun
    /\ Tmp_Finalreports = {}
    /\ drun = NoDecodeRun
    /\ InitJobs
    /\ max_seconds_to_run \in 0..MaxBudget
    /\ now \in 0..(2 * Tick - 1)
    /\ start_time = 0
    /\ end_time = 0
    /\ lp = "start"
    /\ polls = 0
    /\ sec = 0
    /\ scan = NoScanRun
    /\ rep = NoSummaryRun
    /\ crit = NoCriticalCall

\* the for statement calls max_seconds, which runs to `yield 0`
FirstYield ==
    /\ lp = "start"
    /\ start_time' = now
    /\ end_time' = now + max_seconds_to_run * Tick
    /\ sec' = 0
    /\ polls' = 1
    /\ lp' = "poll"
    /\ UNCHANGED <<scan, rep, crit, mapVars, decodeVars, jobVars, max_seconds_to_run, now>>

\* the body of the main loop: one poll with all its jobs, which takes time
Body ==
    /\ lp = "poll"
    /\ \E d \in 1..MaxBody : now' = now + d
    /\ lp' = "next"
    /\ UNCHANGED <<scan, rep, crit, mapVars, decodeVars, jobVars, max_seconds_to_run, start_time,
                   end_time, polls, sec>>

\* the for statement resumes max_seconds
Resume ==
    /\ lp = "next"
    /\ \E g \in {Resumed(now, start_time, end_time, polls)} :
          /\ lp' = g.lp
          /\ now' = g.now
          /\ polls' = IF g.lp = "poll" THEN polls + 1 ELSE polls
          /\ sec' = IF g.lp = "poll" THEN RoundSec(g.now - start_time) ELSE sec
    /\ UNCHANGED <<scan, rep, crit, mapVars, decodeVars, jobVars, max_seconds_to_run, start_time,
                   end_time>>

NextClock == FirstYield \/ Body \/ Resume

SpecClock == InitClock /\ [][NextClock]_vars

(***************************************************************************)
(* upload_file.py: the loop over config["lista_simbolo"] on a final report *)
(* without chip names, for every list of candidates and every file.        *)
(***************************************************************************)
\* the lists of candidates: no separator twice
SeparatorLists ==
    {l \in UNION {[1..n -> Separators] : n \in 1..MaxSeps} :
        \A i, j \in DOMAIN l : i # j => l[i] # l[j]}

InitScan ==
    /\ Mappe = {}
    /\ tables = (Mappa_verif_parentela :> << <<"b">>, <<"a">> >>)
    /\ mrun = NoRun
    /\ Tmp_Finalreports = {}
    /\ drun = NoDecodeRun
    /\ InitJobs
    /\ max_seconds_to_run = 0
    /\ now = 0
    /\ start_time = 0
    /\ end_time = 0
    /\ lp = "start"
    /\ polls = 0
    /\ sec = 0
    /\ \E lista \in SeparatorLists, sep \in Separators, cols \in BOOLEAN,
          rows \in {<<>>, RowsAB, RowsUneven} :
        scan = [lista |-> lista, sep |-> sep, cols |-> cols, rows |-> rows,
                done |-> FALSE, result |-> NoScan]
    /\ rep = NoSummaryRun
    /\ crit = NoCriticalCall

\* lines 619-661 for the file
RunScan ==
    /\ ~scan.done
    /\ scan' = [scan EXCEPT !.done = TRUE,
                            !.result = ScanFinalReport(NoScan, scan.lista, scan.sep,
                                                       scan.cols, scan.rows)]
    /\ UNCHANGED <<rep, crit, mapVars, decodeVars, jobVars, clockVars>>

NextScan == RunScan

SpecScan == InitScan /\ [][NextScan]_vars

(***************************************************************************)
(* upload_file.py: the sample summary of a Genotype job (972-1052).        *)
(***************************************************************************)
\* list(s)[:10]: a set has no order of its own, so any ten of its elements
FirstTenAll(s) == {s}

FirstTen(s) ==
    {t \in SUBSET s :
        Cardinality(t) = IF Cardinality(s) > 10 THEN 10 ELSE Cardinality(s)}

\* report_summary: the counts and the lists of examples that the text holds
ReportText(samples_not_in_archive, first_not, num_samples_final_report, num_rows, first_gen) ==
    [final |-> num_samples_final_report,
     not |-> Cardinality(samples_not_in_archive),
     first_not |-> IF samples_not_in_archive # {} THEN first_not ELSE {},
     rows |-> num_rows,
     first_gen |-> IF samples_not_in_archive # {} \/ num_rows > 0
                   THEN first_gen ELSE {}]

\* the try block: code is M_code before it; the result is M_code after it
\* and the number of calls of criticalError (Case 51_0 when the job has no
\* staged row, the except branch when a query raises)
SampleSummary(code, final_report_sample_ids, archive_sample_ids, staged, raises, first_not, first_gen) ==
    IF raises THEN [M_code |-> code, critical |-> 1]
    ELSE [M_code |-> [code EXCEPT !.errori_elab =
                         ReportText(final_report_sample_ids \ archive_sample_ids,
                                    first_not,
                                    Cardinality(final_report_sample_ids),
                                    Cardinality(staged), first_gen)],
          critical |-> IF staged = {} THEN 1 ELSE 0]

\* the outcomes that a job can have when it comes to the summary
SummaryTags == {"g_I", "g_N", "c_B"}

InitSummary ==
    /\ Mappe = {}
    /\ tables = (Mappa_verif_parentela :> << <<"b">>, <<"a">> >>)
    /\ mrun = NoRun
    /\ Tmp_Finalreports = {}
    /\ drun = NoDecodeRun
    /\ InitJobs
    /\ max_seconds_to_run = 0
    /\ now = 0
    /\ start_time = 0
    /\ end_time = 0
    /\ lp = "start"
    /\ polls = 0
    /\ sec = 0
    /\ scan = NoScanRun
    /\ \E tag \in SummaryTags, f \in 1..MaxSamples, a \in 0..MaxSamples,
          g \in 0..MaxSamples, raises \in BOOLEAN :
        rep = [M_code |-> DecodeTextLog(tag), final |-> 1..f, archive |-> 1..a,
               staged |-> 1..g, raises |-> raises, done |-> FALSE,
               out |-> DecodeTextLog(tag), critical |-> 0]
    /\ crit = NoCriticalCall

\* lines 972-1052, then M_code is read for the status write (1057-1060)
RunSummary ==
    /\ ~rep.done
    /\ \E first_not \in FirstTen(rep.final \ rep.archive),
          first_gen \in FirstTen(rep.staged) :
        \E r \in {SampleSummary(rep.M_code, rep.final, rep.archive, rep.staged,
                                rep.raises, first_not, first_gen)} :
            rep' = [rep EXCEPT !.done = TRUE, !.out = r.M_code,
                               !.critical = r.critical]
    /\ UNCHANGED <<scan, crit, mapVars, decodeVars, jobVars, clockVars>>

NextSummary == RunSummary

SpecSummary == InitSummary /\ [][NextSummary]_vars

(***************************************************************************)
(* upload_file.py: one call of criticalError, statement by statement.      *)
(***************************************************************************)
\* a frame of criticalError at its first statement; database tells that
\* msg_elab is config["DATABASE_ERROR"]["msg"]
Frame(database) == [pc |-> "code_errore", database |-> database]

\* the frame on top of the stack
Top == crit.stack[Len(crit.stack)]

\* the stack with the frame on top at the statement at
TopAt(at) == [crit.stack EXCEPT ![Len(crit.stack)].pc = at]

InitCritical ==
    /\ Mappe = {}
    /\ tables = (Mappa_verif_parentela :> << <<"b">>, <<"a">> >>)
    /\ mrun = NoRun
    /\ Tmp_Finalreports = {}
    /\ drun = NoDecodeRun
    /\ InitJobs
    /\ max_seconds_to_run = 0
    /\ now = 0
    /\ start_time = 0
    /\ end_time = 0
    /\ lp = "start"
    /\ polls = 0
    /\ sec = 0
    /\ scan = NoScanRun
    /\ rep = NoSummaryRun
    /\ \E mainPar \in BOOLEAN, template \in BOOLEAN, store \in BOOLEAN,
          database \in BOOLEAN :
        crit = [NoCriticalCall EXCEPT !.mainParametri = mainPar,
                                      !.templatesParametri = template,
                                      !.store = store,
                                      !.stack = << Frame(database) >>]

\* code_errore(): with both files it rewrites parametri.py; without one of
\* them it calls criticalError (Case6, Case7), which raises RecursionError
\* when the stack is full
CodeErrore ==
    /\ crit.stack # <<>> /\ ~crit.raised
    /\ Top.pc = "code_errore"
    /\ crit' = IF crit.mainParametri /\ crit.templatesParametri
               THEN [crit EXCEPT !.updates = @ + 1, !.stack = TopAt("aggiorna_bit")]
               ELSE IF Len(crit.stack) >= RecursionLimit
               THEN [crit EXCEPT !.raised = TRUE]
               ELSE [crit EXCEPT !.stack = Append(TopAt("aggiorna_bit"), Frame(FALSE))]
    /\ UNCHANGED <<scan, rep, mapVars, decodeVars, jobVars, clockVars>>

\* aggiorna_bit unless msg_elab is the DATABASE_ERROR message: the UPDATE is
\* committed, or it raises and aggiorna_bit calls criticalError (Case9)
\* with that message
StatusWrite ==
    /\ crit.stack # <<>> /\ ~crit.raised
    /\ Top.pc = "aggiorna_bit"
    /\ crit' = IF Top.database THEN [crit EXCEPT !.stack = TopAt("sleep")]
               ELSE IF crit.store
               THEN [crit EXCEPT !.writes = @ + 1, !.stack = TopAt("sleep")]
               ELSE IF Len(crit.stack) >= RecursionLimit
               THEN [crit EXCEPT !.raised = TRUE]
               ELSE [crit EXCEPT !.stack = Append(TopAt("sleep"), Frame(TRUE))]
    /\ UNCHANGED <<scan, rep, mapVars, decodeVars, jobVars, clockVars>>

\* time.sleep(wait), then the call returns to its caller
Sleep ==
    /\ crit.stack # <<>> /\ ~crit.raised
    /\ Top.pc = "sleep"
    /\ crit' = [crit EXCEPT !.sleeps = @ + 1,
                            !.stack = SubSeq(@, 1, Len(@) - 1),
                            !.returned = Len(crit.stack) = 1]
    /\ UNCHANGED <<scan, rep, mapVars, decodeVars, jobVars, clockVars>>

NextCritical == CodeErrore \/ StatusWrite \/ Sleep

\* the statements of a call follow each other: a step that can be taken is
\* taken
SpecCritical == InitCritical /\ [][NextCritical]_vars /\ WF_vars(NextCritical)


(***************************************************************************)
(* Claims about the SNP Map Reconciler (checked under SpecMap).            *)
(***************************************************************************)
Ran == mrun # NoRun

\* the run read a non-empty name list from a file that does not carry the
\* historical override name
OrdinaryFile == mrun.Nome_Map # NomeIcar /\ mrun.camp # <<>>

SetOf(s) == {s[i] : i \in DOMAIN s}
ExactDup(s) == \E i, j \in DOMAIN s : i # j /\ s[i] = s[j]
CaseDup(s) == \E i, j \in DOMAIN s : i # j /\ Upper(s[i]) = Upper(s[j])
IsBlank(name) == \A i \in DOMAIN name : name[i] = " "
HasBlank(s) == \E i \in DOMAIN s : IsBlank(s[i])
ValidNames(s) == ~CaseDup(s) /\ ~HasBlank(s)

\* the run left every stored map as it was
StoredMapsKept ==
    /\ mrun.pre \subseteq Mappe
    /\ \A name \in DOMAIN mrun.preTables :
          name \in DOMAIN tables /\ tables[name] = mrun.preTables[name]

\* the run stored nothing
NothingStored == Mappe = mrun.pre /\ tables = mrun.preTables

\* the run stored exactly one map, under name, with sampleCount n
StoredOne(name, n) ==
    /\ mrun.pre \subseteq Mappe
    /\ \E row \in Mappe :
          /\ Mappe \ mrun.pre = {row}
          /\ row.Map_Name = name
          /\ row.Number_snp = n

\* a stored map of the registry before the run has the SNP set of camp
SameContent(row, camp) ==
    /\ row.Map_Name \in DOMAIN mrun.preTables
    /\ Len(mrun.preTables[row.Map_Name]) = Len(camp)
    /\ SetOf(mrun.preTables[row.Map_Name]) = SetOf(camp)

\* "{n}_a", "{n}_b", ...: the first suffixed name not in the registry
FirstFreeName(n, mappe) ==
    LET free == {k \in 1..Len(SuffixLetters) :
                    (ToString(n) \o "_" \o SuffixLetters[k]) \notin MapNames(mappe)}
        k0 == CHOOSE k \in free : \A j \in free : k <= j
    IN  ToString(n) \o "_" \o SuffixLetters[k0]

\* C1: a valid name list whose length is the sampleCount of no registered
\* map is classified BrandNew and stored as the one new map "{len}_a" with
\* sampleCount len, whatever other sizes the registry holds (stated for
\* non-empty lists in files without the historical override name).
C1_BrandNewWhenNoSameSize ==
    (Ran /\ OrdinaryFile /\ ValidNames(mrun.camp)
         /\ \A r \in mrun.pre : r.Number_snp # Len(mrun.camp))
    => /\ mrun.decision = "BrandNew"
       /\ StoredOne(ToString(Len(mrun.camp)) \o "_a", Len(mrun.camp))

\* C2: a name list with a duplicate name is rejected for DuplicateNames
\* whatever the registry holds, nothing is stored, and the job is published
\* with the map-duplicate outcome m_A.
C2_DuplicateRejected ==
    (Ran /\ ExactDup(mrun.camp))
    => /\ mrun.decision = "Rejected"
       /\ mrun.reason = "DuplicateNames"
       /\ NothingStored
       /\ mrun.M_code = "m_A"
       /\ mrun.written = DecodeTextLog("m_A")

\* a duplicate list was rejected against a registry that holds maps
C2_Witness ==
    /\ Ran /\ ExactDup(mrun.camp) /\ mrun.pre # {}
    /\ mrun.out = "A" /\ mrun.M_code = "m_A"

\* C3: once a run has stored a name list, a second run with the same list
\* against the resulting registry answers MatchesExisting with the name the
\* first run chose and stores nothing (stated for non-empty lists in files
\* without the historical override name).
C3_Idempotent ==
    (mrun.rerun /\ OrdinaryFile)
    => /\ mrun.decision = "MatchesExisting"
       /\ mrun.mappa = mrun.first
       /\ NothingStored

\* C4: a name list with the content of a stored map "{n}_x" of its size is
\* answered MatchesExisting with the name of such a map, and the registry
\* and every SNP table stay as they were (stated for non-empty lists in
\* files without the historical override name).
C4_MatchesExisting ==
    (Ran /\ OrdinaryFile
         /\ \E r \in mrun.pre :
               /\ r.Map_Name # NomeIcar
               /\ r.Number_snp = Len(mrun.camp) /\ SameContent(r, mrun.camp))
    => /\ mrun.decision = "MatchesExisting"
       /\ \E r \in mrun.pre :
             r.Map_Name = mrun.mappa /\ SameContent(r, mrun.camp)
       /\ NothingStored

\* C5: with a stored map of the same size and no stored map of the same
\* content, the list is classified NewVariantOfSize and stored under the
\* first name of "{len}_a", "{len}_b", ... that is not in the registry, with
\* sampleCount len; and no stored map is ever altered (the first part
\* stated for non-empty lists in files without the historical override
\* name).
C5_NewVariantFirstFree ==
    /\ Ran => StoredMapsKept
    /\ (Ran /\ OrdinaryFile /\ ValidNames(mrun.camp)
            /\ (\E r \in mrun.pre : r.Number_snp = Len(mrun.camp))
            /\ (\A r \in mrun.pre : ~SameContent(r, mrun.camp)))
       => /\ mrun.decision = "NewVariantOfSize"
          /\ StoredOne(FirstFreeName(Len(mrun.camp), mrun.pre), Len(mrun.camp))

\* C6: a name list with two names equal after case normalisation is
\* rejected for DuplicateNames.
C6_CaseDuplicateRejected ==
    (Ran /\ CaseDup(mrun.camp))
    => mrun.decision = "Rejected" /\ mrun.reason = "DuplicateNames"

\* C7: a duplicate-free name list with an empty or whitespace-only name is
\* rejected for EmptyNames and nothing is stored.
C7_BlankRejected ==
    (Ran /\ ~ExactDup(mrun.camp) /\ HasBlank(mrun.camp))
    => /\ mrun.decision = "Rejected"
       /\ mrun.reason = "EmptyNames"
       /\ NothingStored

(***************************************************************************)
(* Claims about the Genotype Decoder (checked under SpecDecode).           *)
(***************************************************************************)
\* the data rows of the file that carry the sample
RowsOf(sample) == {i \in DOMAIN drun.rows : drun.rows[i].sample = sample}

\* the position (from 1) that the map gives to a SNP name of the file after
\* upper-casing, 0 when the map does not hold the name
PositionOf(map, name) ==
    LET at == {i \in DOMAIN map : Upper(map[i]) = Upper(name)}
    IN  IF at = {} THEN 0 ELSE CHOOSE i \in at : \A j \in at : j <= i

KnownPair(row) == (row.A1 \o row.A2) \in DOMAIN DecodeGenotype
CodeOf(row) == DecodeGenotype[row.A1 \o row.A2]

\* the positions of an encoded genotype that hold a code other than missing
Called(encoded) == {p \in DOMAIN encoded : encoded[p] # MissingCode}

\* C8: every record that Genotype_Map_Flow.py stages has an encoded genotype
\* as long as the map used, and a call rate that is the fraction of its
\* non-missing positions rounded to 4 decimals (units of 1/10000), between 0
\* and 1; a sample of a two-SNP map whose rows name one SNP only, one of
\* them with a decodable pair, has call rate 0.5 and one missing position.
C8_RecordShape ==
    \A t \in Tmp_Finalreports :
        LET n == Len(tables[t.mappa_usata_G])
            k == Cardinality(Called(t.Genotipo))
            d == t.CallRate_G * n - k * 10000
        IN  /\ Len(t.Genotipo) = n
            /\ t.CallRate_G \in 0..10000
            /\ 2 * d <= n /\ -(2 * d) <= n
            /\ (/\ n = 2
                /\ \A i, j \in RowsOf(t.Campione) :
                      drun.rows[i].snp = drun.rows[j].snp
                /\ \E i \in RowsOf(t.Campione) :
                      KnownPair(drun.rows[i]) /\ CodeOf(drun.rows[i]) # MissingCode)
               => t.CallRate_G = 5000 /\ Cardinality(Called(t.Genotipo)) = 1

\* a staged sample of a two-SNP map with rows for one SNP only
C8_Witness ==
    /\ drun.gmf = "I"
    /\ \E t \in Tmp_Finalreports :
        /\ Len(tables[t.mappa_usata_G]) = 2
        /\ t.CallRate_G = 5000
        /\ \A i, j \in RowsOf(t.Campione) : drun.rows[i].snp = drun.rows[j].snp

\* every row of the sample with a position in the map and a decodable pair
\* is read back from the encoded genotype, and a position without a row of
\* the sample holds the missing code
RoundTripEveryRow(map, sample, encoded) ==
    /\ \A i \in RowsOf(sample) :
          LET p == PositionOf(map, drun.rows[i].snp)
          IN  (p # 0 /\ KnownPair(drun.rows[i]))
              => p \in DOMAIN encoded /\ encoded[p] = CodeOf(drun.rows[i])
    /\ \A p \in DOMAIN encoded :
          (\A i \in RowsOf(sample) : PositionOf(map, drun.rows[i].snp) # p)
          => encoded[p] = MissingCode

\* the same for the last decodable row of each sample and position
RoundTripLastRow(map, sample, encoded) ==
    /\ \A i \in RowsOf(sample) :
          LET p == PositionOf(map, drun.rows[i].snp)
          IN  (/\ p # 0 /\ KnownPair(drun.rows[i])
               /\ \A j \in RowsOf(sample) :
                     (j > i /\ PositionOf(map, drun.rows[j].snp) = p)
                     => ~KnownPair(drun.rows[j]))
              => p \in DOMAIN encoded /\ encoded[p] = CodeOf(drun.rows[i])
    /\ \A p \in DOMAIN encoded :
          (\A i \in RowsOf(sample) : PositionOf(map, drun.rows[i].snp) # p)
          => encoded[p] = MissingCode

\* C9 as stated: in the records of both scripts, every row of a sample whose
\* upper-cased SNP name has a map position and whose allele pair is in the
\* decode table is read back as the code of its pair, and a position without
\* a row of the sample holds the missing code.
C9_RoundTripEveryRow ==
    \A t \in Tmp_Finalreports :
        /\ RoundTripEveryRow(tables[t.mappa_usata_G], t.Campione, t.Genotipo)
        /\ t.Genotipo_parentela # <<>>
           => RoundTripEveryRow(tables[Mappa_verif_parentela], t.Campione,
                                t.Genotipo_parentela)

\* C9 amended: the code read back at a position is the code of the last row
\* of the sample for that position with a pair of the decode table; a
\* position without a row of the sample holds the missing code.
C9_RoundTripLastRow ==
    \A t \in Tmp_Finalreports :
        /\ RoundTripLastRow(tables[t.mappa_usata_G], t.Campione, t.Genotipo)
        /\ t.Genotipo_parentela # <<>>
           => RoundTripLastRow(tables[Mappa_verif_parentela], t.Campione,
                               t.Genotipo_parentela)

\* both scripts staged a sample with two decodable rows for one position,
\* of different codes, and a position left without a row
C9_Witness ==
    /\ drun.phase = "pg" /\ drun.pg = "J"
    /\ \E t \in Tmp_Finalreports :
        /\ t.Genotipo_parentela # <<>>
        /\ \E p \in DOMAIN t.Genotipo_parentela :
              t.Genotipo_parentela[p] = MissingCode
        /\ \E i, j \in RowsOf(t.Campione) :
              /\ i < j
              /\ drun.rows[i].snp = drun.rows[j].snp
              /\ KnownPair(drun.rows[i]) /\ KnownPair(drun.rows[j])
              /\ CodeOf(drun.rows[i]) # CodeOf(drun.rows[j])
              /\ t.Genotipo[PositionOf(tables[t.mappa_usata_G], drun.rows[j].snp)]
                    = CodeOf(drun.rows[j])

(***************************************************************************)
(* Claims about the polling loop (checked under Spec)                      *)
(***************************************************************************)

\* C10: every job that was pending at the start of a poll and met no
\* infrastructure error has, at the end of that poll, a status written
\* with Bit_elaborato non-zero, whatever its file contains
C10_BatchJobsTerminal ==
    pc = "idle" =>
        \A Nume_Cari \in batch \ infra :
            Code_Caricamenti[Nume_Cari].Bit_elaborato # 0

\* the job started last in the running poll, once its iteration is over
Iterated(Nume_Cari) ==
    /\ pc = "batch"
    /\ gNume_Cari = Nume_Cari
    /\ Nume_Cari \in batch
    /\ Nume_Cari \notin SetOf(ids)

\* the loop over ids is about to start the job
Starting(Nume_Cari) == pc = "batch" /\ ids # <<>> /\ Head(ids) = Nume_Cari

\* the fields of a job record that aggiorna_bit writes
StatusFields(row) ==
    [bit_ok |-> row.Bit_OK, bit_elaborato |-> row.Bit_elaborato,
     errori_elab |-> row.Errori_elab]

\* C11: once Bit_elaborato of a job has been written non-zero, the record
\* of the job is never written again and no later poll selects the job
C11_TerminalNeverRevisited ==
    [][\A Nume_Cari \in DOMAIN Code_Caricamenti :
          Code_Caricamenti[Nume_Cari].Bit_elaborato = 1 =>
              /\ Code_Caricamenti'[Nume_Cari] = Code_Caricamenti[Nume_Cari]
              /\ (pc = "idle" /\ pc' = "batch") => Nume_Cari \notin batch']_vars

\* C12: the jobs a poll processes are exactly the jobs whose Bit_elaborato
\* is 0 when the poll reads the table; the record of a job that is unset
\* or 1 at that moment is not modified during the poll
C12_ExactlyPendingPicked ==
    [][/\ (pc = "idle" /\ pc' = "batch") =>
            /\ batch' = {Nume_Cari \in DOMAIN Code_Caricamenti :
                            Code_Caricamenti[Nume_Cari].Bit_elaborato = 0}
            /\ SetOf(ids') = batch'
       /\ pc = "batch" =>
            /\ ids # <<>> => Head(ids) \in batch
            /\ \A Nume_Cari \in DOMAIN Code_Caricamenti :
                  (Nume_Cari \notin batch \/ ids = <<>> \/ Nume_Cari # Head(ids)) =>
                      Code_Caricamenti'[Nume_Cari] = Code_Caricamenti[Nume_Cari]
            /\ pc' = "idle" => ids = <<>>]_vars

\* a poll is over its batch, and a job that was unset when the poll read
\* the table is still untouched beside a job that the poll has written
C12_Witness ==
    /\ pc = "batch"
    /\ ids = <<>>
    /\ \E Nume_Cari \in batch : Code_Caricamenti[Nume_Cari].Bit_elaborato = 1
    /\ \E Nume_Cari \in DOMAIN Code_Caricamenti \ batch :
          /\ Code_Caricamenti[Nume_Cari].Bit_elaborato = -1
          /\ Code_Caricamenti[Nume_Cari].Errori_elab = ""

\* C13: for a job picked up in a poll and free of infrastructure errors,
\* aggiorna_bit is executed exactly once in its iteration, with a status
\* whose Bit_elaborato is non-zero
C13_OneTerminalWrite ==
    \A Nume_Cari \in batch \ infra :
        Iterated(Nume_Cari) =>
            /\ Len(writes) = 1
            /\ writes[1].Nume_Cari = Nume_Cari
            /\ writes[1].bit_elaborato # 0

\* (Data_Cari, Nume_Cari) of x is before that of y
SubmittedBefore(x, y) ==
    \/ Code_Caricamenti[x].Data_Cari < Code_Caricamenti[y].Data_Cari
    \/ /\ Code_Caricamenti[x].Data_Cari = Code_Caricamenti[y].Data_Cari
       /\ x < y

\* C14: in a poll, the jobs still to be started are in ascending
\* (Data_Cari, Nume_Cari) order: the job started next is submitted before
\* every job started after it
C14_SubmittedOrder ==
    pc = "batch" =>
        \A i, j \in DOMAIN ids : i < j => SubmittedBefore(ids[i], ids[j])

\* C15: the iteration of a job never ends the polling loop: whatever the
\* job meets, the loop goes on to the next job or to the end of the poll
C15_JobErrorNeverAborts ==
    [][pc = "batch" => pc' # "crashed"]_vars

\* the archive of the job has one member whose first line contradicts the
\* declared kind of the job
KindContradicted(Nume_Cari) ==
    LET job == Code_Caricamenti[Nume_Cari]
        file == Files[job.Nome_file]
    IN  /\ file.members = 1
        /\ \/ job.Tipo_Cari = "M" /\ file.header
           \/ job.Tipo_Cari = "G" /\ ~file.header

\* C16: when a job whose declared kind contradicts the first line of its
\* file is started, the loop does not crash, the outcome selected is c_A,
\* the status of c_A is the one status written for the job (unless the
\* store is unreachable), and neither pipeline changes the map registry,
\* the map tables or the staging table
C16_TypeMismatch ==
    [][\A Nume_Cari \in DOMAIN Code_Caricamenti :
          (Starting(Nume_Cari) /\ KindContradicted(Nume_Cari)) =>
              /\ pc' = "batch"
              /\ M_code' = "c_A"
              /\ Nume_Cari \notin infra' =>
                    /\ Len(writes') = 1
                    /\ StatusFields(Code_Caricamenti'[Nume_Cari]) =
                          decode_text_log_XDB["c_A"]
              /\ <<Mappe, tables, Tmp_Finalreports, decode_text_log_XDB>>' =
                    <<Mappe, tables, Tmp_Finalreports, decode_text_log_XDB>>]_vars

\* a Genotype job on a map file has been classified and written as c_A
C16_Witness ==
    \E Nume_Cari \in DOMAIN Code_Caricamenti :
        /\ Iterated(Nume_Cari)
        /\ KindContradicted(Nume_Cari)
        /\ Code_Caricamenti[Nume_Cari].Tipo_Cari = "G"
        /\ M_code = "c_A"
        /\ Code_Caricamenti[Nume_Cari].Bit_elaborato = 1
        /\ Code_Caricamenti[Nume_Cari].Errori_elab =
              decode_text_log_XDB["c_A"].errori_elab

\* C17: a job whose archive has more than one member and that met no
\* infrastructure error has, after its iteration, the status of g_H
\* (Genotype) or m_C (Map) written, with Bit_OK 0 and Bit_elaborato
\* non-zero, and nothing is stored for it
C17_MultiFileArchive ==
    \A Nume_Cari \in batch \ infra :
        (Iterated(Nume_Cari) /\ Files[Code_Caricamenti[Nume_Cari].Nome_file].members > 1) =>
            /\ M_code = IF Code_Caricamenti[Nume_Cari].Tipo_Cari = "G"
                        THEN "g_H" ELSE "m_C"
            /\ Code_Caricamenti[Nume_Cari].Bit_OK = 0
            /\ Code_Caricamenti[Nume_Cari].Bit_elaborato # 0
            /\ {t \in Tmp_Finalreports : t.Nume_Cari = Nume_Cari} = {}

\* the map check of the job resolved a stored map whose SNP set is not the
\* set of the SNP names of the file (drun' holds the map resolved)
SnpSetMismatch(Nume_Cari) ==
    LET job == Code_Caricamenti[Nume_Cari]
        file == Files[job.Nome_file]
    IN  /\ job.Tipo_Cari = "G"
        /\ drun'.Mappa_Finalreport \in DOMAIN tables
        /\ SetOf(SnpColumn(file.rows)) # SetOf(tables[drun'.Mappa_Finalreport])

C19_StatusWrittenTogether ==
    writes # <<>> =>
        StatusFields(Code_Caricamenti[writes[Len(writes)].Nume_Cari]) =
            [bit_ok |-> writes[Len(writes)].bit_ok,
             bit_elaborato |-> writes[Len(writes)].bit_elaborato,
             errori_elab |-> writes[Len(writes)].errori_elab]

\* a status that changes all three fields of the record has been written
C19_Witness ==
    /\ writes # <<>>
    /\ writes[Len(writes)].bit_ok = 1
    /\ writes[Len(writes)].bit_elaborato = 1
    /\ Code_Caricamenti[writes[Len(writes)].Nume_Cari].Errori_elab # ""

C21_InfrastructureEndsPoll ==
    [][(pc = "batch" /\ infra # {} /\ ids # <<>>) =>
          /\ ids' = ids
          /\ gNume_Cari' = gNume_Cari
          /\ Code_Caricamenti' = Code_Caricamenti]_vars

\* C22: the first poll starts at once; every further poll starts on a
\* boundary of the interval and while the elapsed time is below the budget
C22_PollsWithinBudget ==
    lp = "poll" =>
        /\ polls = 1 => now = start_time
        /\ polls > 1 =>
              /\ now - start_time < max_seconds_to_run * Tick
              /\ (now - start_time) % (interval * Tick) = 0

\* C23: when the header of a file with data rows has the required columns
\* under a candidate of the list, the scan locks a separator, keeps every
\* data row of the file and does not report a missing column, wherever the
\* working candidate stands in the list
C23_SeparatorPositionFree ==
    (scan.done /\ scan.cols /\ scan.rows # <<>> /\ scan.sep \in SetOf(scan.lista)) =>
        /\ scan.result.blocco = "trovato_separator"
        /\ scan.result.camp = CampRows(scan.rows)
        /\ scan.result.File_Final_Report # "missing"

\* the file of the job has one member and no header line with the required
\* columns: no Index / Name line for a Map job, no allele columns on the
\* "SNP Name" line for a Genotype job
HeaderUnrecognised(Nume_Cari) ==
    LET job == Code_Caricamenti[Nume_Cari]
        file == Files[job.Nome_file]
    IN  /\ file.members = 1
        /\ \/ job.Tipo_Cari = "M" /\ ~file.header /\ ~file.index
           \/ job.Tipo_Cari = "G" /\ file.header /\ ~file.cols

\* C24: the iteration of a job whose file has no recognised header does not
\* crash and, unless it meets an infrastructure error, selects and writes
\* the outcome of the missing header: m_B for a Map job, g_A for a Genotype
\* job, with Bit_OK 0 and Bit_elaborato non-zero
C24_HeaderNotFound ==
    [][\A Nume_Cari \in DOMAIN Code_Caricamenti :
          (/\ Starting(Nume_Cari)
           /\ HeaderUnrecognised(Nume_Cari)
           /\ Nume_Cari \notin infra') =>
              /\ pc' = "batch"
              /\ M_code' = IF Code_Caricamenti[Nume_Cari].Tipo_Cari = "M"
                           THEN "m_B" ELSE "g_A"
              /\ Code_Caricamenti'[Nume_Cari].Bit_OK = 0
              /\ Code_Caricamenti'[Nume_Cari].Bit_elaborato # 0]_vars

\* the outcome tag of each result of the Map pipeline
TagOfDecision ==
    [Rejected |-> "m_A", HeaderNotFound |-> "m_B", MultiFileArchive |-> "m_C",
     MatchesExisting |-> "m_D", BrandNew |-> "m_E", NewVariantOfSize |-> "m_F"]

\* C25: when Map_Flow.py ends with one of its six results and prints its
\* flag, the outcome selected for the job is the tag of that result, so two
\* results never end under one tag, and the status written is the triple
\* configured for the tag
C25_MapResultTags ==
    (Ran /\ mrun.out # "" /\ mrun.decision \in DOMAIN TagOfDecision) =>
        /\ mrun.M_code = TagOfDecision[mrun.decision]
        /\ mrun.written = DecodeTextLog(mrun.M_code)

\* a second job of a poll matched the map that the first job stored: its
\* outcome is m_D although M_code held m_E or m_F before it
C25_Witness ==
    /\ Ran
    /\ mrun.rerun
    /\ mrun.decision = "MatchesExisting"
    /\ mrun.out = "D"
    /\ mrun.M_code = "m_D"
    /\ mrun.written = DecodeTextLog("m_D")

\* the SNP names of the file, upper-cased, that the map of the script run
\* last does not hold
AbsentFromMap ==
    LET code_snpmap == IF drun.phase = "gmf"
                       THEN GmfCodeSnpmap(tables, drun.Mappa_Finalreport)
                       ELSE PgCodeSnpmap(tables)
    IN  {Upper(drun.rows[i].snp) : i \in DOMAIN drun.rows}
            \ {Upper(code_snpmap[j]) : j \in DOMAIN code_snpmap}

\* C27: when the loop of a decoding script is over, snp_finalrep_not is
\* exactly the set of the upper-cased SNP names of the file that the map
\* does not hold: a row with an allele pair outside the decode table does
\* not add its SNP
C27_NotInMapExact ==
    drun.phase \in {"gmf", "pg"} => drun.not = AbsentFromMap

\* the SNP set of the file is a proper subset or a proper superset of the
\* SNP set of the map resolved for the job (drun' holds the map resolved)
ProperSubsetOrSuperset(Nume_Cari) ==
    LET job == Code_Caricamenti[Nume_Cari]
        file == Files[job.Nome_file]
    IN  /\ job.Tipo_Cari = "G"
        /\ drun'.Mappa_Finalreport \in DOMAIN tables
        /\ SetOf(SnpColumn(file.rows)) # SetOf(tables[drun'.Mappa_Finalreport])
        /\ \/ SetOf(SnpColumn(file.rows)) \subseteq SetOf(tables[drun'.Mappa_Finalreport])
           \/ SetOf(tables[drun'.Mappa_Finalreport]) \subseteq SetOf(SnpColumn(file.rows))

\* C26: a Genotype job whose file has a proper subset or superset of the
\* SNPs of the resolved map, and that meets no infrastructure error, is
\* decoded and ends with an outcome whose Bit_OK is 1
C26_SubsetSupersetTolerated ==
    [][\A Nume_Cari \in DOMAIN Code_Caricamenti :
          (/\ Starting(Nume_Cari)
           /\ ProperSubsetOrSuperset(Nume_Cari)
           /\ pc' = "batch"
           /\ Nume_Cari \notin infra') =>
              /\ M_code' \in OkTags
              /\ Code_Caricamenti'[Nume_Cari].Bit_OK = 1
              /\ \E t \in Tmp_Finalreports' : t.Nume_Cari = Nume_Cari]_vars

\* the job has a final report without chip names, readable with a
\* separator of the configuration, whose samples do not all have the same
\* number of SNP rows
UnevenChipless(Nume_Cari) ==
    LET job == Code_Caricamenti[Nume_Cari]
        file == Files[job.Nome_file]
    IN  /\ job.Tipo_Cari = "G"
        /\ file.members = 1 /\ file.header /\ file.cols
        /\ file.chip = ""
        /\ file.sep \in SetOf(lista_simbolo)
        /\ InconsistentCount(file.rows)

\* C28: the iteration of a Genotype job whose file has no chip names and an
\* unequal number of SNP rows per sample, unless it meets an infrastructure
\* error, writes once the outcome of the inconsistent count (g_E: Bit_OK 0,
\* Bit_elaborato 1), resolves no map, decodes nothing, stages and stores
\* nothing, and the loop goes on to the next job of the batch
C28_InconsistentCountOutcome ==
    [][\A Nume_Cari \in DOMAIN Code_Caricamenti :
          (/\ Starting(Nume_Cari)
           /\ ids' # ids \/ pc' # pc
           /\ UnevenChipless(Nume_Cari)
           /\ Nume_Cari \notin infra') =>
              /\ pc' = "batch" /\ ids' = Tail(ids)
              /\ M_code' = "g_E"
              /\ writes' = << [Nume_Cari |-> Nume_Cari, bit_ok |-> 0,
                               bit_elaborato |-> 1, errori_elab |-> "g_E"] >>
              /\ Code_Caricamenti' =
                     AggiornaBit(Code_Caricamenti, Nume_Cari, 0, 1, "g_E")
              /\ drun' = NoDecodeRun
              /\ Tmp_Finalreports' = Tmp_Finalreports
              /\ Mappe' = Mappe /\ tables' = tables]_vars

\* a job with such a file was written with the outcome of the inconsistent
\* count while a later job of its batch waits
C28_Witness ==
    /\ pc = "batch" /\ ids # <<>>
    /\ \E Nume_Cari \in DOMAIN Code_Caricamenti :
          /\ UnevenChipless(Nume_Cari)
          /\ gNume_Cari = Nume_Cari
          /\ Code_Caricamenti[Nume_Cari].Errori_elab = "g_E"
          /\ Code_Caricamenti[Nume_Cari].Bit_elaborato = 1

\* C29: the sample summary leaves bit_ok and bit_elaborato of the outcome
\* as they were before it, whether it writes its text, finds samples that
\* the archive does not hold, finds no staged row or raises; when it raises
\* the outcome is left as it was; the text holds at most 10 samples that the
\* archive does not hold and at most 10 samples with a staged genotype
C29_SummaryAdvisory ==
    rep.done =>
        /\ rep.out.bit_ok = rep.M_code.bit_ok
        /\ rep.out.bit_elaborato = rep.M_code.bit_elaborato
        /\ rep.raises => rep.out = rep.M_code
        /\ ~rep.raises =>
              /\ Cardinality(rep.out.errori_elab.first_not) <= 10
              /\ Cardinality(rep.out.errori_elab.first_gen) <= 10
              /\ rep.out.errori_elab.first_not \subseteq rep.final \ rep.archive
              /\ rep.out.errori_elab.first_gen \subseteq rep.staged

\* a summary was written for a file with more than ten samples that the
\* archive does not hold and more than ten staged samples
C29_Witness ==
    /\ rep.done /\ ~rep.raises
    /\ Cardinality(rep.final \ rep.archive) > 10
    /\ Cardinality(rep.staged) > 10
    /\ rep.out.errori_elab.not > 10
    /\ rep.out.bit_ok = 1

\* C30: a run for the map file named 554_ICAR, with a list of names that is
\* not empty, that registers a map, as
\* BrandNew or as NewVariantOfSize, registers it under the name 554_ICAR
C30_OverrideNameKept ==
    (/\ Ran
     /\ mrun.Nome_Map = NomeIcar
     /\ mrun.camp # <<>>
     /\ mrun.decision \in {"BrandNew", "NewVariantOfSize"}) =>
        /\ mrun.mappa = NomeIcar
        /\ MapNames(Mappe) \ MapNames(mrun.pre) = {NomeIcar}

\* the pipeline of the job selects no outcome of its own: a final report
\* whose "SNP Name" line lacks the allele columns
SelectsNoOutcome(Nume_Cari) ==
    LET job == Code_Caricamenti[Nume_Cari]
        file == Files[job.Nome_file]
    IN  /\ job.Tipo_Cari = "G"
        /\ file.members = 1 /\ file.header /\ ~file.cols

\* C31: the iteration of a job whose pipeline selects no outcome of its own,
\* started when an earlier job of the same poll has selected one, does not
\* write the outcome of that earlier job as the status of this job
C31_OwnOutcomeOnly ==
    [][\A Nume_Cari \in DOMAIN Code_Caricamenti :
          (/\ Starting(Nume_Cari)
           /\ ids' # ids \/ pc' # pc
           /\ SelectsNoOutcome(Nume_Cari)
           /\ M_code # "none") =>
              ~ \E i \in DOMAIN writes' :
                   /\ writes'[i].Nume_Cari = Nume_Cari
                   /\ M_code' = M_code
                   /\ writes'[i].bit_elaborato = decode_text_log_XDB[M_code].bit_elaborato
                   /\ writes'[i].bit_ok = decode_text_log_XDB[M_code].bit_ok
                   /\ writes'[i].errori_elab = decode_text_log_XDB[M_code].errori_elab]_vars

\* C32: a step changes the record of a job only when that job is the one
\* being processed; the record of every other job, and every record when no
\* job is being processed, stays as it is
C32_WritesTargetCurrentJob ==
    [][\A Nume_Cari \in DOMAIN Code_Caricamenti :
          Code_Caricamenti'[Nume_Cari] # Code_Caricamenti[Nume_Cari]
              => Starting(Nume_Cari)]_vars

\* C33: every tag of config["decode_text_log_XDB"] has its configured
\* triple in every state
C33_VocabularyUnchanged ==
    \A tag \in DOMAIN decode_text_log_XDB :
        decode_text_log_XDB[tag] = DecodeTextLog(tag)

\* C34: no two rows of the map registry name tables that hold the same set
\* of SNP names (tables with at least one name)
C34_NoTwoMapsSameSnpSet ==
    \A r1, r2 \in Mappe :
        (/\ r1.Map_Name # r2.Map_Name
         /\ r1.Number_snp > 0
         /\ r1.Map_Name \in DOMAIN tables
         /\ r2.Map_Name \in DOMAIN tables) =>
            SetOf(tables[r1.Map_Name]) # SetOf(tables[r2.Map_Name])

\* the registry holds a map that the lookup of the job selects (by the chip
\* name of the file; by the SNP count when the file has no chip name or no
\* row has its chip name as alias) and whose table holds the SNP set of the
\* file; the rows of the file were read
MatchingMapExists(Nume_Cari) ==
    LET job == Code_Caricamenti[Nume_Cari]
        file == Files[job.Nome_file]
        count == Cardinality(SetOf(SnpColumn(file.rows)))
    IN  /\ job.Tipo_Cari = "G"
        /\ file.members = 1 /\ file.header /\ file.cols
        /\ file.rows # <<>>
        /\ \/ file.chip # ""
           \/ ScanOutcome(ScanFinalReport(NoScan, lista_simbolo, file.sep,
                                          file.cols, file.rows)) = "check"
        /\ \E r \in Mappe :
              /\ r.Map_Name \in DOMAIN tables
              /\ SetOf(tables[r.Map_Name]) = SetOf(SnpColumn(file.rows))
              /\ \/ file.chip # "" /\ r.Map_Alias = file.chip
                 \/ /\ file.chip # ""
                    /\ \A r2 \in Mappe : r2.Map_Alias # file.chip
                    /\ r.Number_snp = count
                 \/ file.chip = "" /\ r.Number_snp = count

\* C35: the iteration of a Genotype job for which such a map exists, unless
\* it meets an infrastructure error, does not end the run, resolves a map
\* whose table holds the SNP set of the file and does not select the
\* outcome of the map mismatch
C35_MatchingMapResolved ==
    [][\A Nume_Cari \in DOMAIN Code_Caricamenti :
          (/\ Starting(Nume_Cari)
           /\ ids' # ids \/ pc' # pc
           /\ MatchingMapExists(Nume_Cari)
           /\ Nume_Cari \notin infra') =>
              /\ pc' = "batch"
              /\ drun'.Mappa_Finalreport \in DOMAIN tables
              /\ SetOf(tables[drun'.Mappa_Finalreport])
                     = SetOf(SnpColumn(Files[Code_Caricamenti[Nume_Cari].Nome_file].rows))
              /\ M_code' # "g_N"]_vars

\* the way the job goes on after the two scripts of the run
AfterRun == AfterScripts(drun.pg, drun.M_code, Tmp_Finalreports)

\* C36: Parentage_Genotyping.py runs after Genotype_Map_Flow.py, and when
\* Genotype_Map_Flow.py printed its failure flag the outcome that the job
\* goes on to write after the two scripts has Bit_OK 0, whatever
\* Parentage_Genotyping.py printed (or the job ends in criticalError)
C36_DecoderFailureNotMasked ==
    /\ drun.phase = "pg" => drun.gmf # "-"
    /\ drun.phase = "gmf" => drun.pg = "-"
    /\ (drun.phase = "pg" /\ drun.gmf = "A") =>
          \/ AfterRun.end = "critical"
          \/ /\ AfterRun.end = "write"
             /\ DecodeTextLog(AfterRun.M_code).bit_ok = 0

\* the decoder failed and the parentage extraction reported success
C36_Witness ==
    /\ drun.phase = "pg" /\ drun.gmf = "A" /\ drun.pg = "J"
    /\ AfterRun.end = "write"

\* C37: Genotype_Map_Flow.py prints its success flag only when it has
\* inserted rows of the job into Tmp_Finalreports, one for each sample of
\* the data rows it read
C37_SuccessOnlyWithRecords ==
    (drun.phase \in {"gmf", "pg"} /\ drun.gmf = "I") =>
        /\ \E t \in Tmp_Finalreports : t.Nume_Cari = 1
        /\ \A sample \in SamplesOf(drun.rows) :
              \E t \in Tmp_Finalreports : t.Nume_Cari = 1 /\ t.Campione = sample

\* C38: in every state every row of the map registry names a table, and
\* that table holds Number_snp names
C38_RegistryConsistent ==
    \A r \in Mappe :
        /\ r.Map_Name \in DOMAIN tables
        /\ Len(tables[r.Map_Name]) = r.Number_snp

\* C39: every call of criticalError returns, and when it has returned it
\* has made one update of parametri.py, at most one status write and one
\* sleep
C39_CriticalErrorReturns ==
    /\ <>crit.returned
    /\ [](crit.returned =>
            /\ crit.updates = 1
            /\ crit.writes <= 1
            /\ crit.sleeps = 1)

====
